---- MODULE Spec2Model ----
(***************************************************************************)
(* Chunk-spanning value iteration of go-bullseye/bullseye (package         *)
(* iterator): the chunk cursor, the typed value iterators, and the step    *)
(* iterator that advances one value iterator per column in lockstep.       *)
(*                                                                         *)
(* A column is a sequence of chunks; a chunk is a sequence of cells, each  *)
(* with a raw buffer value v and a validity bit.  Every iterator is a      *)
(* record ("world") that carries the column it reads, its own fields, its  *)
(* chunk cursor and the reference counts of the column's chunks, so that   *)
(* each method of the source is an operator from world to world.           *)
(***************************************************************************)
EXTENDS Integers, Sequences, FiniteSets, TLC

\* ---------------------------------------------------------------- bounds
MaxChunks == 3       \* chunks per column (single-iterator specification)
MaxChunkLen == 2     \* cells per chunk
MaxRows == 3         \* cells per column
MaxRefs == 2         \* references held on one iterator at a time
MaxOverRelease == 1  \* Release calls issued beyond the references held
MaxFalseCalls == 2   \* Next calls that return false
MaxStructChunks == 2 \* chunks per struct column
MaxStructRows == 2   \* entries per struct column
MaxFields == 2       \* fields of a struct type
NumCols == 2         \* columns of a step iterator
MaxValuesCalls == 2  \* calls of a step iterator's Values()
StepMaxRows == 4     \* rows per column under a step iterator
StepMaxChunkLen == 2 \* chunk size of a column under a step iterator
MaxListChunks == 2   \* chunks per list column
MaxListEntries == 2  \* raw entries per list chunk
MaxListLen == 2      \* elements per list entry
MaxListOffset == 1   \* data offset of a (sliced) list chunk

\* ------------------------------------------------------------ the columns
RECURSIVE SumTo(_, _)
SumTo(s, k) == IF k = 0 THEN 0 ELSE s[k] + SumTo(s, k - 1)

Sum(s) == SumTo(s, Len(s))

Shapes ==
  { s \in UNION { [1..k -> 0..MaxChunkLen] : k \in 0..MaxChunks } : Sum(s) <= MaxRows }

\* The column with chunk lengths `shape`, whose p-th cell (counted over the
\* whole column) holds the raw value base + p and is null iff p \in nulls.
MkColumn(shape, nulls, base) ==
  [ k \in 1..Len(shape) |->
      [ cells  |-> [ i \in 1..shape[k] |->
                       [ v     |-> base + SumTo(shape, k - 1) + i,
                         valid |-> (SumTo(shape, k - 1) + i) \notin nulls ] ],
        fields |-> << >> ] ]

StructShapes ==
  { s \in UNION { [1..k -> 0..MaxChunkLen] : k \in 0..MaxStructChunks } :
      Sum(s) <= MaxStructRows }

\* How far the last field's sub-array may differ in length from its struct
\* chunk (array.NewStructData does not compare the lengths).
Skews == { -1, 0, 1 }

\* The struct column with chunk lengths `shape` and nf fields: entry p is null
\* iff p \in nulls; field f of a chunk is a sub-array of the chunk's length,
\* the last field's length being off by skew.
MkStructColumn(shape, nulls, nf, skew) ==
  [ k \in 1..Len(shape) |->
      [ cells  |-> [ i \in 1..shape[k] |->
                       [ v     |-> SumTo(shape, k - 1) + i,
                         valid |-> (SumTo(shape, k - 1) + i) \notin nulls ] ],
        fields |-> [ f \in 1..nf |->
                       [ cells  |-> [ i \in 1..(IF f = nf /\ shape[k] + skew >= 0
                                                THEN shape[k] + skew ELSE shape[k]) |->
                                        [ v     |-> 100 * f + SumTo(shape, k - 1) + i,
                                          valid |-> TRUE ] ],
                         fields |-> << >> ] ] ] ]

RECURSIVE FlattenTo(_, _)
FlattenTo(col, k) ==
  IF k = 0 THEN << >> ELSE FlattenTo(col, k - 1) \o col[k].cells

\* All cells of a column in storage order.
Flatten(col) == FlattenTo(col, Len(col))

\* The same logical values held in one single chunk.
SingleChunk(col) == << [ cells |-> Flatten(col), fields |-> << >> ] >>

\* array.Interface: Len, IsNull, Value of a chunk (0-based index as in Go).
ChunkLen(c) == Len(c.cells)

\* An index outside the chunk reads no cell of the model: it is reported as
\* the value -1, not null (in Go: a panic or a read past the buffer).
IsNull(c, i) == IF i >= 0 /\ i < Len(c.cells) THEN ~ c.cells[i + 1].valid ELSE FALSE

RawValue(c, i) == IF i >= 0 /\ i < Len(c.cells) THEN c.cells[i + 1].v ELSE -1

\* Retain / Release of chunk k in the table of chunk reference counts.
ChunkRetain(rc, k) == [ rc EXCEPT ![k] = @ + 1 ]

ChunkRelease(rc, k) == [ rc EXCEPT ![k] = @ - 1 ]

\* ------------------------------------------------------- the chunk cursor
\* ChunkIterator: pos chunks consumed, cur the chunk held (0 = none).
NewChunkIterator == [ pos |-> 0, cur |-> 0, refCount |-> 1 ]

\* ChunkIterator.Next: take the next chunk, retaining it and releasing the
\* one held before; at the end of the sequence release what is held.
ChunkIteratorNext(w) ==
  IF w.ci.pos < Len(w.col)
  THEN LET k  == w.ci.pos + 1
           r1 == ChunkRetain(w.rc, k)
           r2 == IF w.ci.cur # 0 THEN ChunkRelease(r1, w.ci.cur) ELSE r1
       IN  [ w EXCEPT !.ci.pos = k, !.ci.cur = k, !.rc = r2, !.ret = TRUE,
                      !.polls = @ + 1 ]
  ELSE LET r2 == IF w.ci.cur # 0 THEN ChunkRelease(w.rc, w.ci.cur) ELSE w.rc
       IN  [ w EXCEPT !.ci.cur = 0, !.rc = r2, !.ret = FALSE, !.polls = @ + 1 ]

\* ChunkIterator.Release: the last release gives back the chunk held.
ChunkIteratorRelease(w) ==
  LET refs == w.ci.refCount - 1
  IN  IF refs = 0
      THEN LET r2 == IF w.ci.cur # 0 THEN ChunkRelease(w.rc, w.ci.cur) ELSE w.rc
           IN  [ w EXCEPT !.ci.refCount = refs, !.ci.cur = 0, !.rc = r2,
                          !.ciReleases = @ + 1 ]
      ELSE [ w EXCEPT !.ci.refCount = refs, !.ciReleases = @ + 1 ]

\* --------------------------------------------------- typed value iterators
\* The iterator kinds: "Int64" stands for the iterators generated from one
\* template (Int64, Float64, Int32, ...), "Boolean" for the hand-written
\* BooleanValueIterator.
Kinds == { "Int64", "Boolean" }

\* NewInt64ValueIterator / NewBooleanValueIterator: one reference, index 0,
\* no chunk held, a fresh chunk cursor.  rc holds the reference counts of
\* the column's chunks (one each, owned by the table); asserts tells whether
\* the build has the assert tag.
NewValueIterator(kind, asserts, col) ==
  [ kind       |-> kind,
    asserts    |-> asserts,
    col        |-> col,
    rc         |-> [ k \in 1..Len(col) |-> 1 ],
    ci         |-> NewChunkIterator,
    hasCI      |-> TRUE,
    refCount   |-> 1,
    index      |-> 0,
    ref        |-> 0,
    fieldIterators |-> << >>,
    fieldsBuilt    |-> 0,
    fieldsCleaned  |-> 0,
    done       |-> FALSE,
    ret        |-> FALSE,
    polls      |-> 0,
    acquired   |-> 0,
    cleanups   |-> 0,
    ciReleases |-> 0,
    panicked   |-> FALSE ]

\* vr.ref, the chunk the iterator holds.  With no chunk held (nil in Go, 0
\* here) there is no cell to read: an empty chunk stands for it, whose reads
\* are those of an index outside the chunk.
Ref(w) == IF w.ref \in DOMAIN w.col THEN w.col[w.ref] ELSE [ cells |-> << >>, fields |-> << >> ]

\* Value: the raw buffer value and the null flag at the current position.
Value(w) ==
  [ v |-> RawValue(Ref(w), w.index), null |-> IsNull(Ref(w), w.index) ]

NilPointer == [ nil |-> TRUE, chunk |-> 0, idx |-> 0, v |-> 0 ]

\* ValuePointer: nil for a null; otherwise the template iterators return the
\* address of the chunk's element (&vr.values[vr.index]) and the boolean
\* iterator the address of a local copy (chunk 0: inside no chunk).
ValuePointer(w) ==
  IF IsNull(Ref(w), w.index)
  THEN NilPointer
  ELSE IF w.kind = "Boolean"
       THEN [ nil |-> FALSE, chunk |-> 0, idx |-> 0,
              v |-> RawValue(Ref(w), w.index) ]
       ELSE [ nil |-> FALSE, chunk |-> w.ref, idx |-> w.index,
              v |-> RawValue(Ref(w), w.index) ]

NilValue == [ nil |-> TRUE, v |-> 0 ]

\* Mutant of ValueInterface: the null check is missing.
ValueInterfaceNoNullCheck(w) ==
  [ nil |-> FALSE, v |-> RawValue(Ref(w), w.index) ]

\* ValueInterface: nil for a null, the stored value otherwise.
ValueInterface(w) ==
  IF IsNull(Ref(w), w.index)
  THEN NilValue
  ELSE [ nil |-> FALSE, v |-> RawValue(Ref(w), w.index) ]

\* Mutant of nextChunk: the index is not reset to 0.
ValueIteratorNextChunkKeepIndex(w) ==
  LET a == ChunkIteratorNext(w)
  IN  IF ~ a.ret
      THEN a
      ELSE LET k  == a.ci.cur
               r1 == ChunkRetain(a.rc, k)
               r2 == IF a.ref # 0 THEN ChunkRelease(r1, a.ref) ELSE r1
           IN  [ a EXCEPT !.rc = r2, !.ref = k, !.ret = TRUE, !.acquired = @ + 1 ]

\* Mutant of nextChunk: the chunk held before is not released.
ValueIteratorNextChunkNoRelease(w) ==
  LET a == ChunkIteratorNext(w)
  IN  IF ~ a.ret
      THEN a
      ELSE LET k == a.ci.cur
           IN  [ a EXCEPT !.rc = ChunkRetain(a.rc, k), !.ref = k, !.index = 0,
                          !.ret = TRUE, !.acquired = @ + 1 ]

\* nextChunk: pull the next chunk from the cursor; retain it, release the
\* chunk held before, and restart the index.
ValueIteratorNextChunk(w) ==
  LET a == ChunkIteratorNext(w)
  IN  IF ~ a.ret
      THEN a
      ELSE LET k  == a.ci.cur
               r1 == ChunkRetain(a.rc, k)
               r2 == IF a.ref # 0 THEN ChunkRelease(r1, a.ref) ELSE r1
           IN  [ a EXCEPT !.rc = r2, !.ref = k, !.index = 0, !.ret = TRUE,
                          !.acquired = @ + 1 ]

\* Mutant of the loop of Next: "if" for "for", one chunk pulled at most.
ValueIteratorNextLoopOnce(w) ==
  IF w.ref = 0 \/ w.index >= ChunkLen(w.col[w.ref])
  THEN LET n == ValueIteratorNextChunk(w)
       IN  IF ~ n.ret
           THEN [ n EXCEPT !.done = TRUE, !.ret = FALSE ]
           ELSE [ n EXCEPT !.ret = TRUE ]
  ELSE [ w EXCEPT !.ret = TRUE ]

\* Mutant of the loop of Next: the bound test is "index > len" for
\* "index >= len".
RECURSIVE ValueIteratorNextLoopOffByOne(_)
ValueIteratorNextLoopOffByOne(w) ==
  IF w.ref = 0 \/ w.index > ChunkLen(w.col[w.ref])
  THEN LET n == ValueIteratorNextChunk(w)
       IN  IF ~ n.ret
           THEN [ n EXCEPT !.done = TRUE, !.ret = FALSE ]
           ELSE ValueIteratorNextLoopOffByOne(n)
  ELSE [ w EXCEPT !.ret = TRUE ]

\* The loop of Next: keep moving the chunk up until one has data at index.
RECURSIVE ValueIteratorNextLoop(_)
ValueIteratorNextLoop(w) ==
  IF w.ref = 0 \/ w.index >= ChunkLen(w.col[w.ref])
  THEN LET n == ValueIteratorNextChunk(w)
       IN  IF ~ n.ret
           THEN [ n EXCEPT !.done = TRUE, !.ret = FALSE ]
           ELSE ValueIteratorNextLoop(n)
  ELSE [ w EXCEPT !.ret = TRUE ]

\* Mutant of Next: the done check answers true.
ValueIteratorNextDoneTrue(w) ==
  IF w.done
  THEN [ w EXCEPT !.ret = TRUE ]
  ELSE ValueIteratorNextLoop([ w EXCEPT !.index = @ + 1 ])

\* Next: false at once when done; otherwise move the index up and loop.
ValueIteratorNext(w) ==
  IF w.done
  THEN [ w EXCEPT !.ret = FALSE ]
  ELSE ValueIteratorNextLoop([ w EXCEPT !.index = @ + 1 ])

\* Retain: atomic.AddInt64(&vr.refCount, 1).
ValueIteratorRetain(w) == [ w EXCEPT !.refCount = @ + 1 ]

\* What Release does when the count reaches zero: release the chunk cursor
\* and the chunk held, and forget both.
ValueIteratorCleanup(w) ==
  LET a == IF w.hasCI THEN [ ChunkIteratorRelease(w) EXCEPT !.hasCI = FALSE ] ELSE w
      b == IF a.ref # 0
           THEN [ a EXCEPT !.rc = ChunkRelease(a.rc, a.ref), !.ref = 0 ]
           ELSE a
  IN  [ b EXCEPT !.cleanups = @ + 1 ]

\* Mutant of Release: the cleanup runs whatever the count has become.
ValueIteratorReleaseAlways(w) ==
  ValueIteratorCleanup([ w EXCEPT !.refCount = @ - 1 ])

\* Release.  Template iterators decrement and then assert refs >= 0; the
\* boolean and the list iterator assert refCount > 0 and then decrement.  A failed
\* assertion panics (only in builds with the assert tag).
ValueIteratorRelease(w) ==
  IF w.kind \in { "Boolean", "List" }
  THEN IF w.asserts /\ ~ (w.refCount > 0)
       THEN [ w EXCEPT !.panicked = TRUE ]
       ELSE LET d == [ w EXCEPT !.refCount = @ - 1 ]
            IN  IF d.refCount = 0 THEN ValueIteratorCleanup(d) ELSE d
  ELSE LET d == [ w EXCEPT !.refCount = @ - 1 ]
       IN  IF d.asserts /\ ~ (d.refCount >= 0)
           THEN [ d EXCEPT !.panicked = TRUE ]
           ELSE IF d.refCount = 0 THEN ValueIteratorCleanup(d) ELSE d

\* ----------------------------------------------------------- list iterator
\* A list array: cells are its entries (those of a sliced array start at
\* raw entry `offset`), offsets the raw offsets buffer (entry j, counted
\* from 0 over the raw entries, spans offsets[j] .. offsets[j+1]-1 of the
\* values array; TLA+ sequences count from 1), values the child array.
IsListArray(arr) == "offsets" \in DOMAIN arr

\* array.Interface.DataType of an array of the model, as the kind of value
\* iterator NewValueIterator picks for it.
DataTypeOf(arr) == IF IsListArray(arr) THEN "List" ELSE "Int64"

\* NewInterfaceValueIterator: a value iterator, of the kind of the array's
\* data type, over a one-chunk column that wraps the array.
NewInterfaceValueIterator(asserts, arr) ==
  NewValueIterator(DataTypeOf(arr), asserts, << arr >>)

\* array.NewSlice(arr, beg, end): the entries beg .. end-1 of arr; a list
\* array keeps its buffers and moves its offset.
NewSlice(arr, beg, end) ==
  IF IsListArray(arr)
  THEN [ arr EXCEPT !.cells = SubSeq(@, beg + 1, end), !.offset = @ + beg ]
  ELSE [ arr EXCEPT !.cells = SubSeq(@, beg + 1, end) ]

\* NewListValueIterator: as NewBooleanValueIterator.
NewListValueIterator(asserts, col) == NewValueIterator("List", asserts, col)

\* The value an interface{} holds when it is an iterator (a list entry).
IteratorValue(w) == [ nil |-> FALSE, v |-> 0, iter |-> w ]

\* Mutant of ListValueIterator.ValueInterface: the data offset of the chunk
\* is not added to the index.
ListValueInterfaceNoOffset(w) ==
  IF IsNull(Ref(w), w.index)
  THEN NilValue
  ELSE LET j   == w.index
           beg == Ref(w).offsets[j + 1]
           end == Ref(w).offsets[j + 2]
           arr == NewSlice(Ref(w).values, beg, end)
       IN  IteratorValue(NewInterfaceValueIterator(w.asserts, arr))

\* ListValueIterator.ValueInterface: nil for a null entry; otherwise a new
\* value iterator over the slice [offsets[j], offsets[j+1]) of the values
\* array, j being the index plus the data offset of the chunk.
ListValueInterface(w) ==
  IF IsNull(Ref(w), w.index)
  THEN NilValue
  ELSE LET j   == w.index + Ref(w).offset
           beg == Ref(w).offsets[j + 1]
           end == Ref(w).offsets[j + 2]
           arr == NewSlice(Ref(w).values, beg, end)
       IN  IteratorValue(NewInterfaceValueIterator(w.asserts, arr))

\* ----------------------------------------------------- struct iterator
\* ValueIterator.Next and ValueIterator.Release, dispatched on the dynamic
\* type of the iterator.
RECURSIVE IteratorNext(_)
RECURSIVE IteratorRelease(_)

\* NewStructValueIterator: as the typed iterators, but index starts at -1
\* and there are no field iterators yet.
NewStructValueIterator(asserts, col) ==
  [ NewValueIterator("Struct", asserts, col) EXCEPT !.index = -1 ]

\* Release of every field iterator of w, counting the cleanups that ran.
ReleaseFieldIterators(w) ==
  LET rel == [ i \in 1..Len(w.fieldIterators) |-> IteratorRelease(w.fieldIterators[i]) ]
      ran == Cardinality({ i \in 1..Len(rel) :
                             rel[i].cleanups > w.fieldIterators[i].cleanups })
  IN  [ w EXCEPT !.fieldIterators = rel, !.fieldsCleaned = @ + ran ]

\* Mutant of StructValueIterator.nextChunk: the field iterators of the
\* chunk left are dropped without a Release.
StructValueIteratorNextChunkDropFields(w) ==
  LET a == ChunkIteratorNext(w)
  IN  IF ~ a.ret
      THEN a
      ELSE LET k  == a.ci.cur
               r1 == ChunkRetain(a.rc, k)
               r2 == IF a.ref # 0 THEN ChunkRelease(r1, a.ref) ELSE r1
               nf == Len(a.col[k].fields)
           IN  [ a EXCEPT !.rc = r2, !.ref = k, !.index = -1, !.ret = TRUE,
                          !.acquired = @ + 1,
                          !.fieldIterators =
                             [ i \in 1..nf |->
                                 NewInterfaceValueIterator(a.asserts, a.col[k].fields[i]) ],
                          !.fieldsBuilt = @ + nf ]

\* StructValueIterator.nextChunk: as nextChunk of the typed iterators, and
\* the field iterators of the chunk left are released and new ones built
\* over the field sub-arrays of the new chunk.
StructValueIteratorNextChunk(w) ==
  LET a == ChunkIteratorNext(w)
  IN  IF ~ a.ret
      THEN a
      ELSE LET k  == a.ci.cur
               r1 == ChunkRetain(a.rc, k)
               r2 == IF a.ref # 0 THEN ChunkRelease(r1, a.ref) ELSE r1
               b  == ReleaseFieldIterators(a)
               nf == Len(a.col[k].fields)
           IN  [ b EXCEPT !.rc = r2, !.ref = k, !.index = -1, !.ret = TRUE,
                          !.acquired = @ + 1,
                          !.fieldIterators =
                             [ i \in 1..nf |->
                                 NewInterfaceValueIterator(a.asserts, a.col[k].fields[i]) ],
                          !.fieldsBuilt = @ + nf ]

\* advanceFieldIterators: move the index up and advance every field
\* iterator; ret tells whether all of them are done.
AdvanceFieldIterators(w) ==
  LET adv == [ i \in 1..Len(w.fieldIterators) |-> IteratorNext(w.fieldIterators[i]) ]
  IN  [ w EXCEPT !.index = @ + 1, !.fieldIterators = adv,
                 !.ret = (\A i \in 1..Len(adv) : ~ adv[i].ret) ]

\* The loop of StructValueIterator.Next:
\*   for vr.ref == nil || vr.advanceFieldIterators() { nextChunk or done }.
RECURSIVE StructValueIteratorNextLoop(_)
StructValueIteratorNextLoop(w) ==
  LET a == IF w.ref = 0 THEN [ w EXCEPT !.ret = TRUE ] ELSE AdvanceFieldIterators(w)
  IN  IF a.ret
      THEN LET n == StructValueIteratorNextChunk(a)
           IN  IF ~ n.ret
               THEN [ n EXCEPT !.done = TRUE, !.ret = FALSE ]
               ELSE StructValueIteratorNextLoop(n)
      ELSE [ a EXCEPT !.ret = TRUE ]

\* StructValueIterator.Next.
StructValueIteratorNext(w) ==
  IF w.done
  THEN [ w EXCEPT !.ret = FALSE ]
  ELSE StructValueIteratorNextLoop(w)

\* StructValueIterator.Release: assert refCount > 0, decrement, and at zero
\* release the cursor, the chunk held and the field iterators.
StructValueIteratorRelease(w) ==
  IF w.asserts /\ ~ (w.refCount > 0)
  THEN [ w EXCEPT !.panicked = TRUE ]
  ELSE LET d == [ w EXCEPT !.refCount = @ - 1 ]
       IN  IF d.refCount = 0
           THEN ReleaseFieldIterators(ValueIteratorCleanup(d))
           ELSE d

IteratorNext(w) ==
  IF w.kind = "Struct" THEN StructValueIteratorNext(w) ELSE ValueIteratorNext(w)

IteratorRelease(w) ==
  IF w.kind = "Struct" THEN StructValueIteratorRelease(w) ELSE ValueIteratorRelease(w)

IteratorRetain(w) == ValueIteratorRetain(w)

\* StructValueIterator.ValueInterface: nil for a null entry, otherwise the
\* field iterators themselves.
StructValueInterface(w) ==
  IF IsNull(Ref(w), w.index)
  THEN NilValue
  ELSE [ nil |-> FALSE, v |-> 0, iters |-> w.fieldIterators ]

\* ValueIterator.ValueInterface, dispatched on the dynamic type.
IteratorValueInterface(w) ==
  IF w.kind = "Struct" THEN StructValueInterface(w)
  ELSE IF w.kind = "List" THEN ListValueInterface(w)
  ELSE ValueInterface(w)

\* ------------------------------------------------------- the materializer
\* JSON-representable values: nil, a scalar, a list, an object (a function
\* from field names to values).
JNil == [ t |-> "nil", v |-> 0, l |-> << >> ]

JVal(x) == [ t |-> "val", v |-> x, l |-> << >> ]

JList(s) == [ t |-> "list", v |-> 0, l |-> s ]

JObj(f) == [ t |-> "obj", v |-> 0, l |-> << >>, o |-> f ]

\* A string, as its sequence of characters.
JStr(s) == [ t |-> "str", v |-> 0, l |-> << >>, s |-> s ]

\* What rowElementToJSON hands back: (value, nil), (nil, error) or a panic.
Returned(j) == [ val |-> j, err |-> "", panic |-> FALSE ]

Failed(e) == [ val |-> JNil, err |-> e, panic |-> FALSE ]

Panicked(e) == [ val |-> JNil, err |-> e, panic |-> TRUE ]

\* The arrow type ids whose values rowElementToJSON returns as they are
\* (those the model has columns for), and type ids outside its switch.
ScalarIds == { "BOOL", "INT64" }

UnsupportedIds == { "UNION", "DICTIONARY", "MAP", "EXTENSION", "FIXED_SIZE_LIST" }

\* The field names of struct types.
FieldNames == << "field1", "field2", "field3", "field4" >>

\* arrow.DataType: its id and, for a struct type, the names of its fields.
DataType(id, names) == [ id |-> id, names |-> names ]

\* ValueIterator.DataType(): the data type of the column the iterator reads.
IteratorDataType(w) ==
  IF w.kind = "Struct"
  THEN DataType("STRUCT",
         SubSeq(FieldNames, 1, IF w.col = << >> THEN 0 ELSE Len(w.col[1].fields)))
  ELSE IF w.kind = "List" THEN DataType("LIST", << >>)
  ELSE IF w.kind = "Boolean" THEN DataType("BOOL", << >>)
  ELSE DataType("INT64", << >>)

\* The dynamic type of an interface{} value: an iterator, a slice of
\* iterators, or a scalar.
IsIterator(value) == "iter" \in DOMAIN value

IsIteratorSlice(value) == "iters" \in DOMAIN value

\* ---- decimal128.Num: a 128-bit two's-complement integer kept as an
\* unsigned low half and a signed high half.  The model keeps the layout
\* and scales each half from 64 to HalfBits bits.
HalfBits == 3

Half == 2 ^ HalfBits

\* The values of a signed half (int64) and of an unsigned half (uint64).
SignedHalf == (0 - Half \div 2)..(Half \div 2 - 1)

UnsignedHalf == 0..(Half - 1)

\* decimal128.New(hi, lo).
New(hi, lo) == [ lo |-> lo, hi |-> hi ]

\* decimal128.FromI64(v): the low half is uint64(v), the high half the sign
\* extension.
FromI64(v) ==
  IF v > 0 THEN New(0, v % Half)
  ELSE IF v < 0 THEN New(-1, v % Half)
  ELSE New(0, 0)

LowBits(n) == n.lo

HighBits(n) == n.hi

\* An interface{} that holds a decimal128.Num, a byte, a []byte.
NumValue(n) == [ nil |-> FALSE, v |-> 0, num |-> n ]

ByteValue(b) == [ nil |-> FALSE, v |-> 0, byte |-> b ]

BytesValue(bs) == [ nil |-> FALSE, v |-> 0, bytes |-> bs ]

IsNum(value) == "num" \in DOMAIN value

IsByte(value) == "byte" \in DOMAIN value

IsBytes(value) == "bytes" \in DOMAIN value

\* Signed128BitInteger{Lo, Hi}; encoded as {"lo": Lo, "hi": Hi}.
Signed128BitInteger(lo, hi) == [ t |-> "dec", v |-> 0, l |-> << >>, lo |-> lo, hi |-> hi ]

\* Mutant of the DECIMAL case: the halves are exchanged.
DecimalToJSONSwapped(value) ==
  IF ~ IsNum(value)
  THEN Failed("type not implemented")
  ELSE Returned(Signed128BitInteger(HighBits(value.num), LowBits(value.num)))

\* The DECIMAL case of rowElementToJSON: a value that is no decimal128.Num
\* leaves the switch and gets the error after it.
DecimalToJSON(value) ==
  IF ~ IsNum(value)
  THEN Failed("type not implemented")
  ELSE Returned(Signed128BitInteger(LowBits(value.num), HighBits(value.num)))

\* ---- hex strings, as sequences of characters.
HexChars == << "0", "1", "2", "3", "4", "5", "6", "7",
               "8", "9", "a", "b", "c", "d", "e", "f" >>

\* hex.EncodeToString: two lower-case digits per byte, high nibble first.
EncodeToString(bs) ==
  [ i \in 1..(2 * Len(bs)) |->
      IF i % 2 = 1
      THEN HexChars[(bs[(i + 1) \div 2] \div 16) + 1]
      ELSE HexChars[(bs[i \div 2] % 16) + 1] ]

UpperChar(c) ==
  IF c = "a" THEN "A" ELSE IF c = "b" THEN "B" ELSE IF c = "c" THEN "C"
  ELSE IF c = "d" THEN "D" ELSE IF c = "e" THEN "E" ELSE IF c = "f" THEN "F"
  ELSE c

\* strings.ToUpper.
ToUpper(s) == [ i \in 1..Len(s) |-> UpperChar(s[i]) ]

\* arrow.FixedSizeBinaryType{ByteWidth: w}.
FixedSizeBinaryType(w) == [ id |-> "FIXED_SIZE_BINARY", names |-> << >>, byteWidth |-> w ]

\* The FIXED_SIZE_BINARY case of rowElementToJSON: value.(byte) panics on a
\* value of any other dynamic type; the one byte is rendered and the length
\* of the rendering compared with 2 * ByteWidth.
FixedSizeBinaryToJSON(dt, value) ==
  IF ~ IsByte(value)
  THEN Panicked("interface conversion: interface {} is not uint8")
  ELSE LET v == ToUpper(EncodeToString(<< value.byte >>))
       IN  IF Len(v) # 2 * dt.byteWidth
           THEN Failed("invalid hex-string length")
           ELSE Returned(JStr(v))

RECURSIVE rowElementToJSON(_, _)
RECURSIVE ListElementsToJSON(_, _)
RECURSIVE StructFieldsToJSON(_, _, _, _)
RECURSIVE ElementAppended(_, _, _)
RECURSIVE FieldAdded(_, _, _, _, _)

\* Mutant of the loop of the LIST case: the list starts as a nil slice, so
\* that a list without elements is returned as nil.
ListElementsToJSONNilWhenEmpty(w, acc) ==
  IF ~ w.ret
  THEN IF acc = << >> THEN Returned(JNil) ELSE Returned(JList(acc))
  ELSE ElementAppended(w, acc, rowElementToJSON(IteratorDataType(w), IteratorValueInterface(w)))

\* The loop of the LIST case: every element the iterator yields is
\* materialized with the iterator's data type and appended; the first error
\* ends the loop.
ListElementsToJSON(w, acc) ==
  IF ~ w.ret
  THEN Returned(JList(acc))
  ELSE ElementAppended(w, acc, rowElementToJSON(IteratorDataType(w), IteratorValueInterface(w)))

\* The rest of the loop once the element at the iterator's position is
\* materialized as el.
ElementAppended(w, acc, el) ==
  IF el.panic \/ el.err # ""
  THEN el
  ELSE ListElementsToJSON(IteratorNext(w), Append(acc, el.val))

\* The loop of the STRUCT case over the fields i .. of the struct type:
\* field i takes the current value of the i-th iterator.
StructFieldsToJSON(names, iters, i, acc) ==
  IF i > Len(names)
  THEN Returned(JObj(acc))
  ELSE IF i > Len(iters)
  THEN Panicked("index out of range")
  ELSE FieldAdded(names, iters, i, acc,
         rowElementToJSON(IteratorDataType(iters[i]), IteratorValueInterface(iters[i])))

\* The rest of that loop once field i is materialized as el.
FieldAdded(names, iters, i, acc, el) ==
  IF el.panic \/ el.err # ""
  THEN el
  ELSE StructFieldsToJSON(names, iters, i + 1,
         [ k \in DOMAIN acc \cup { names[i] } |->
             IF k = names[i] THEN el.val ELSE acc[k] ])

\* rowElementToJSON without the nil check ahead of the switch on the type id.
rowElementToJSONNoNilCheck(dt, value) ==
  IF dt.id = "NULL" THEN Returned(JNil)
  ELSE IF dt.id \in ScalarIds THEN Returned(JVal(value.v))
  ELSE IF dt.id = "FIXED_SIZE_BINARY" THEN FixedSizeBinaryToJSON(dt, value)
  ELSE IF dt.id = "DECIMAL" THEN DecimalToJSON(value)
  ELSE IF dt.id = "LIST"
       THEN IF ~ IsIterator(value)
            THEN Failed("could not convert value to interface")
            ELSE ListElementsToJSON(IteratorNext(value.iter), << >>)
  ELSE IF dt.id = "STRUCT"
       THEN IF ~ IsIteratorSlice(value)
            THEN Failed("could not convert value to interface")
            ELSE StructFieldsToJSON(dt.names, value.iters, 1, << >>)
  ELSE Panicked("type not implemented")

\* rowElementToJSON(dtype, value).
rowElementToJSON(dt, value) ==
  IF value.nil
  THEN Returned(JNil)
  ELSE IF dt.id = "NULL" THEN Returned(JNil)
  ELSE IF dt.id \in ScalarIds THEN Returned(JVal(value.v))
  ELSE IF dt.id = "FIXED_SIZE_BINARY" THEN FixedSizeBinaryToJSON(dt, value)
  ELSE IF dt.id = "DECIMAL" THEN DecimalToJSON(value)
  ELSE IF dt.id = "LIST"
       THEN IF ~ IsIterator(value)
            THEN Failed("could not convert value to interface")
            ELSE ListElementsToJSON(IteratorNext(value.iter), << >>)
  ELSE IF dt.id = "STRUCT"
       THEN IF ~ IsIteratorSlice(value)
            THEN Failed("could not convert value to interface")
            ELSE StructFieldsToJSON(dt.names, value.iters, 1, << >>)
  ELSE Panicked("type not implemented")

\* -------------------------------------------------------- step iterator
\* StepValue before the first Next: stepIterator.stepValue is nil.
NoStepValue == [ isNil |-> TRUE, Values |-> << >>, Exists |-> << >>, Dtypes |-> << >> ]

\* Mutant of NewStepIterator: the iterators are not retained.
NewStepIteratorNoRetain(asserts, dtypes, iterators) ==
  [ refCount     |-> 1,
    iterators    |-> iterators,
    iteratorsNil |-> FALSE,
    stepValue    |-> NoStepValue,
    heap         |-> << >>,
    addr         |-> 0,
    dtypes       |-> dtypes,
    asserts      |-> asserts,
    nexts        |-> [ i \in 1..Len(iterators) |-> 0 ],
    reads        |-> [ i \in 1..Len(iterators) |-> 0 ],
    panicked     |-> FALSE ]

\* NewStepIterator: one reference is taken on each iterator; the step
\* iterator itself starts with one reference and no step value.  nexts and
\* reads count, per iterator, the calls of its Next and of its
\* ValueInterface that the step iterator has made.  heap holds the
\* StepValue objects allocated so far, each at the address that is its
\* index; addr is the pointer s.stepValue (0 for nil) and stepValue what it
\* points to.
NewStepIterator(asserts, dtypes, iterators) ==
  [ refCount     |-> 1,
    iterators    |-> [ i \in 1..Len(iterators) |-> IteratorRetain(iterators[i]) ],
    iteratorsNil |-> FALSE,
    stepValue    |-> NoStepValue,
    heap         |-> << >>,
    addr         |-> 0,
    dtypes       |-> dtypes,
    asserts      |-> asserts,
    nexts        |-> [ i \in 1..Len(iterators) |-> 0 ],
    reads        |-> [ i \in 1..Len(iterators) |-> 0 ],
    panicked     |-> FALSE ]

\* Mutant of NewStepIteratorForColumns: the deferred Release of the column
\* iterators is missing.
NewStepIteratorForColumnsNoRelease(asserts, dtypes, cols) ==
  NewStepIterator(asserts, dtypes,
    [ i \in 1..Len(cols) |-> NewValueIterator(dtypes[i], asserts, cols[i]) ])

\* Mutant of NewStepIteratorForColumns: iterators are prepended, not appended.
NewStepIteratorForColumnsReversed(asserts, dtypes, cols) ==
  LET n == Len(cols)
      s0 == NewStepIterator(asserts, dtypes,
              [ i \in 1..n |-> NewValueIterator(dtypes[n + 1 - i], asserts, cols[n + 1 - i]) ])
  IN  [ s0 EXCEPT !.iterators = [ i \in 1..n |-> IteratorRelease(s0.iterators[i]) ] ]

\* NewStepIteratorForColumns: one value iterator per column, in column
\* order, with the column's data type; NewStepIterator retains them and the
\* deferred calls release the constructor's own references.  A column's
\* data type is named by the kind of its iterator.
NewStepIteratorForColumns(asserts, dtypes, cols) ==
  LET s0 == NewStepIterator(asserts, dtypes,
              [ i \in 1..Len(cols) |-> NewValueIterator(dtypes[i], asserts, cols[i]) ])
  IN  [ s0 EXCEPT !.iterators =
                     [ i \in 1..Len(cols) |-> IteratorRelease(s0.iterators[i]) ] ]

\* The StepValue built by stepIterator.Next from the advanced iterators:
\* the existence flag of each and, if it exists, its ValueInterface (nil
\* otherwise).
StepValueOf(dtypes, adv) ==
  [ isNil  |-> FALSE,
    Values |-> [ i \in 1..Len(adv) |->
                 IF adv[i].ret THEN IteratorValueInterface(adv[i]) ELSE NilValue ],
    Exists |-> [ i \in 1..Len(adv) |-> adv[i].ret ],
    Dtypes |-> dtypes ]

\* Mutant of StepIteratorAdvanced: the result is the AND of the flags.
StepIteratorAdvancedAnd(st, adv) ==
  [ s   |-> [ st EXCEPT !.iterators = IF st.iteratorsNil THEN @ ELSE adv,
                        !.stepValue = StepValueOf(st.dtypes, adv) ],
    ret |-> (\A i \in 1..Len(adv) : adv[i].ret) ]

\* Mutant of StepIteratorAdvanced: the values are those the iterators were
\* on before they moved.
StepIteratorAdvancedStale(st, adv) ==
  [ s   |-> [ st EXCEPT !.iterators = IF st.iteratorsNil THEN @ ELSE adv,
                        !.stepValue =
                           [ isNil  |-> FALSE,
                             Values |-> [ i \in 1..Len(adv) |->
                                          IF adv[i].ret /\ st.iterators[i].ref # 0
                                          THEN ValueInterface(st.iterators[i])
                                          ELSE NilValue ],
                             Exists |-> [ i \in 1..Len(adv) |-> adv[i].ret ],
                             Dtypes |-> st.dtypes ] ],
    ret |-> (\E i \in 1..Len(adv) : adv[i].ret) ]

\* Mutant of StepIteratorAdvanced: the StepValue the iterator holds is
\* written over, none is allocated after the first.
StepIteratorAdvancedInPlace(st, adv) ==
  [ s   |-> [ st EXCEPT !.iterators = IF st.iteratorsNil THEN @ ELSE adv,
                        !.stepValue = StepValueOf(st.dtypes, adv),
                        !.heap = IF st.addr = 0
                                 THEN Append(@, StepValueOf(st.dtypes, adv))
                                 ELSE [ @ EXCEPT ![st.addr] = StepValueOf(st.dtypes, adv) ],
                        !.addr = IF st.addr = 0 THEN Len(st.heap) + 1 ELSE @,
                        !.reads = [ i \in DOMAIN @ |->
                                      IF i \in DOMAIN adv /\ adv[i].ret
                                      THEN @[i] + 1 ELSE @[i] ] ],
    ret |-> (\E i \in 1..Len(adv) : adv[i].ret) ]

\* The end of stepIterator.Next: the new StepValue is installed and the
\* result is the OR of the existence flags.  The record returned holds the
\* step iterator after the call (s) and the result (ret).  ValueInterface
\* has been called on the iterators whose Next returned true.
StepIteratorAdvanced(st, adv) ==
  [ s   |-> [ st EXCEPT !.iterators = IF st.iteratorsNil THEN @ ELSE adv,
                        !.stepValue = StepValueOf(st.dtypes, adv),
                        !.heap = Append(@, StepValueOf(st.dtypes, adv)),
                        !.addr = Len(st.heap) + 1,
                        !.reads = [ i \in DOMAIN @ |->
                                      IF i \in DOMAIN adv /\ adv[i].ret
                                      THEN @[i] + 1 ELSE @[i] ] ],
    ret |-> (\E i \in 1..Len(adv) : adv[i].ret) ]

\* stepIterator.Values: the pointer s.stepValue.  The record returned holds
\* the step iterator after the call (s) and the pointer (ret).
StepIteratorValues(st) == [ s |-> st, ret |-> st.addr ]

\* What a pointer to a StepValue points to.
Deref(st, a) == IF a \in DOMAIN st.heap THEN st.heap[a] ELSE NoStepValue

\* Mutant of stepIterator.Next: an iterator that is done is passed over.
StepIteratorNextSkipDone(st) ==
  StepIteratorAdvanced(
    [ st EXCEPT !.nexts = [ i \in DOMAIN @ |->
                             IF st.iteratorsNil \/ st.iterators[i].done
                             THEN @[i] ELSE @[i] + 1 ] ],
    [ i \in 1..(IF st.iteratorsNil THEN 0 ELSE Len(st.iterators)) |->
        IF st.iterators[i].done
        THEN st.iterators[i]
        ELSE IteratorNext(st.iterators[i]) ])

\* stepIterator.Next: every iterator is advanced, whether or not it is
\* exhausted, and a new StepValue is built from them.
StepIteratorNext(st) ==
  StepIteratorAdvanced(
    [ st EXCEPT !.nexts = [ i \in DOMAIN @ |->
                             IF st.iteratorsNil THEN @[i] ELSE @[i] + 1 ] ],
    [ i \in 1..(IF st.iteratorsNil THEN 0 ELSE Len(st.iterators)) |->
        IteratorNext(st.iterators[i]) ])

\* stepIterator.Retain.
StepIteratorRetain(st) == [ st EXCEPT !.refCount = @ + 1 ]

\* Mutant of stepIterator.Release: the assertion is missing.
StepIteratorReleaseNoAssert(st) ==
  LET d == [ st EXCEPT !.refCount = @ - 1 ]
  IN  IF d.refCount = 0
      THEN [ d EXCEPT !.iterators =
                         IF d.iteratorsNil THEN @
                         ELSE [ i \in 1..Len(@) |-> IteratorRelease(@[i]) ],
                      !.iteratorsNil = TRUE ]
      ELSE d

\* stepIterator.Release: decrement, assert refs >= 0, and at zero release
\* every iterator and drop the slice.
StepIteratorRelease(st) ==
  LET d == [ st EXCEPT !.refCount = @ - 1 ]
  IN  IF d.asserts /\ ~ (d.refCount >= 0)
      THEN [ d EXCEPT !.panicked = TRUE ]
      ELSE IF d.refCount = 0
           THEN [ d EXCEPT !.iterators =
                              IF d.iteratorsNil THEN @
                              ELSE [ i \in 1..Len(@) |-> IteratorRelease(@[i]) ],
                           !.iteratorsNil = TRUE ]
           ELSE d

\* ------------------------------------- specification: one value iterator
VARIABLES
  vr,        \* the value iterator under test
  out,       \* the (value, null) pairs read after each successful Next
  falses,    \* Next calls that have returned false
  acqAtEnd,  \* chunks acquired when Next first returned false
  nRetain,   \* Retain calls issued
  nRelease,  \* Release calls issued
  it,        \* the step iterator under test
  hist,      \* per Next call of the step iterator: its result and StepValue
  child,     \* what ValueInterface last returned for a list entry
  elems,     \* the values read from the child iterator so far
  dtype,     \* the data type handed to the materializer
  json,      \* what the materializer last returned
  elem,      \* a value handed to the materializer directly
  tj,        \* the ToJSON call: where it is, and what it returned
  wr,        \* the io.Writer ToJSON writes to
  conc,      \* an iterator shared by threads that Retain and Release it
  got,       \* what each call of the step iterator's Values() returned
  elms,      \* the values a column is built from
  column,    \* what NewColumnFromMem returned
  sb,        \* the SmartBuilder and the values appended to it
  rec,       \* the record built from the SmartBuilder
  cast       \* a sparse collection and what the conversions made of it

valueVars == << vr, out, acqAtEnd >>

stepVars == << it, hist >>

listVars == << child, elems >>

jsonVars == << dtype, json >>

buildVars == << elms, column, sb, rec, cast >>

auxVars == << elem, tj, wr, conc, got, buildVars >>


vars == << vr, out, falses, acqAtEnd, nRetain, nRelease, it, hist, child, elems, dtype, json, elem, tj, wr, conc, got, elms, column, sb, rec, cast >>

\* No ValueInterface call on a list entry yet, no materializer call yet.
NoChild == [ has |-> FALSE, val |-> NilValue ]

NoDataType == DataType("none", << >>)

NoJSON == [ val |-> [ t |-> "none", v |-> 0, l |-> << >> ], err |-> "", panic |-> FALSE ]

\* The step iterator of a run that exercises a value iterator alone.
NoStepIterator == NewStepIterator(FALSE, << >>, << >>)

\* No ToJSON call, and a writer nothing was written to.
NoToJSON ==
  [ pc |-> "none", err |-> "", panic |-> FALSE, schema |-> << >>, built |-> 0, released |-> 0 ]

NoWriter == [ lines |-> << >>, failAt |-> 0 ]

\* No iterator is shared by threads.
NoShared == [ kind |-> "none" ]

\* No column and no record is built.
NoColumn == [ col |-> << >>, dataType |-> "none", err |-> "none" ]

NoSmartBuilder ==
  [ fields |-> << >>, fieldAppenders |-> << >>, builders |-> << >>, appended |-> << >>,
    panicked |-> FALSE ]

NoRecord == [ built |-> FALSE, cols |-> << >>, panicked |-> FALSE ]

\* No sparse collection.
NoCast == [ indexes |-> << >>, size |-> 0, sparse |-> << >>, dense |-> << >> ]

NoBuild ==
  /\ elms = << >>
  /\ column = NoColumn
  /\ sb = NoSmartBuilder
  /\ rec = NoRecord
  /\ cast = NoCast

\* No value is handed to the materializer directly, ToJSON is not called.
AuxInit ==
  /\ elem = NilValue
  /\ tj = NoToJSON
  /\ wr = NoWriter
  /\ conc = NoShared
  /\ got = << >>
  /\ NoBuild

Init ==
  /\ \/ \E s \in Shapes : \E nulls \in SUBSET (1..Sum(s)) :
          \E kind \in Kinds : \E asserts \in BOOLEAN :
            vr = NewValueIterator(kind, asserts, MkColumn(s, nulls, 0))
     \/ \E s \in StructShapes : \E nulls \in SUBSET (1..Sum(s)) :
          \E nf \in 0..MaxFields : \E skew \in Skews : \E asserts \in BOOLEAN :
            vr = NewStructValueIterator(asserts, MkStructColumn(s, nulls, nf, skew))
  /\ out = << >>
  /\ falses = 0
  /\ acqAtEnd = 0
  /\ nRetain = 0
  /\ nRelease = 0
  /\ it = NoStepIterator
  /\ hist = << >>
  /\ child = NoChild
  /\ elems = << >>
  /\ dtype = NoDataType
  /\ json = NoJSON
  /\ AuxInit

\* The caller's loop body: for vr.Next() { v, null := vr.Value() ... }.  For a
\* struct iterator the entry's identity and null flag are recorded.
DoNext ==
  /\ vr.refCount >= 1 /\ ~ vr.panicked
  /\ falses < MaxFalseCalls
  /\ \E n \in { IteratorNext(vr) } :
       /\ vr' = n
       /\ out' = IF n.ret THEN Append(out, Value(n)) ELSE out
       /\ falses' = IF n.ret THEN falses ELSE falses + 1
       /\ acqAtEnd' = IF falses = 0 /\ ~ n.ret THEN n.acquired ELSE acqAtEnd
  /\ UNCHANGED << nRetain, nRelease, it, hist, listVars, jsonVars, auxVars >>

DoRetain ==
  /\ vr.refCount >= 1 /\ ~ vr.panicked
  /\ nRetain < MaxRefs - 1
  /\ vr' = ValueIteratorRetain(vr)
  /\ nRetain' = nRetain + 1
  /\ UNCHANGED << out, falses, acqAtEnd, nRelease, it, hist, listVars, jsonVars, auxVars >>

DoRelease ==
  /\ ~ vr.panicked
  /\ nRelease < 1 + nRetain + MaxOverRelease
  /\ vr' = IteratorRelease(vr)
  /\ nRelease' = nRelease + 1
  /\ UNCHANGED << out, falses, acqAtEnd, nRetain, it, hist, listVars, jsonVars, auxVars >>

Next == DoNext \/ DoRetain \/ DoRelease

Spec == Init /\ [][Next]_vars

\* ------------------------------------- specification: one step iterator
\* The columns of a table: column j has rows[j] cells in chunks of `size`
\* cells (the last one shorter), or, when size = 0, of 1 + (j % StepMaxChunkLen)
\* cells, so that chunk boundaries differ between columns; its i-th cell
\* holds 10 * j + i and is null iff period > 0 and i + j is a multiple of
\* period.
NullPeriods == { 0, 4 }

ChunkSizes(rows, size) ==
  [ k \in 1..((rows + size - 1) \div size) |->
      IF k * size <= rows THEN size ELSE rows - (k - 1) * size ]

MkTable(rows, size, period) ==
  [ j \in 1..NumCols |->
      MkColumn(ChunkSizes(rows[j], IF size = 0 THEN 1 + (j % StepMaxChunkLen) ELSE size),
               { i \in 1..rows[j] : period > 0 /\ (i + j) % period = 0 },
               10 * j) ]

\* The data types of the columns: the two kinds in turn.
TableDtypes == [ j \in 1..NumCols |-> IF j % 2 = 1 THEN "Int64" ELSE "Boolean" ]

\* The value iterator of a run that exercises a step iterator alone.
NoValueIterator == NewValueIterator("Int64", FALSE, << >>)

InitStep ==
  /\ \E rows \in [1..NumCols -> 0..StepMaxRows] :
       \E size \in 0..StepMaxChunkLen :
         \E period \in NullPeriods : \E asserts \in BOOLEAN :
           it = NewStepIteratorForColumns(asserts, TableDtypes,
                                         MkTable(rows, size, period))
  /\ hist = << >>
  /\ falses = 0
  /\ nRetain = 0
  /\ nRelease = 0
  /\ vr = NoValueIterator
  /\ out = << >>
  /\ acqAtEnd = 0
  /\ child = NoChild
  /\ elems = << >>
  /\ dtype = NoDataType
  /\ json = NoJSON
  /\ AuxInit

\* it.Next() followed by it.Values().
DoStepNext ==
  /\ it.refCount >= 1 /\ ~ it.panicked
  /\ falses < MaxFalseCalls
  /\ \E n \in { StepIteratorNext(it) } :
       /\ it' = n.s
       /\ hist' = Append(hist, [ ret |-> n.ret, sv |-> n.s.stepValue ])
       /\ falses' = IF n.ret THEN falses ELSE falses + 1
  /\ UNCHANGED << nRetain, nRelease, valueVars, listVars, jsonVars, auxVars >>

DoStepRetain ==
  /\ it.refCount >= 1 /\ ~ it.panicked
  /\ nRetain < MaxRefs - 1
  /\ it' = StepIteratorRetain(it)
  /\ nRetain' = nRetain + 1
  /\ UNCHANGED << hist, falses, nRelease, valueVars, listVars, jsonVars, auxVars >>

DoStepRelease ==
  /\ ~ it.panicked
  /\ nRelease < 1 + nRetain + MaxOverRelease
  /\ it' = StepIteratorRelease(it)
  /\ nRelease' = nRelease + 1
  /\ UNCHANGED << hist, falses, nRetain, valueVars, listVars, jsonVars, auxVars >>

\* it.Values(), by a caller that keeps the pointer; got keeps, with the
\* pointer, what it pointed to, after how many steps it was obtained, and
\* whether the call left the step iterator as it was.
DoStepValues ==
  /\ it.refCount >= 1 /\ ~ it.panicked
  /\ Len(got) < MaxValuesCalls
  /\ \E r \in { StepIteratorValues(it) } :
       /\ it' = r.s
       /\ got' = Append(got, [ addr |-> r.ret, sv |-> Deref(r.s, r.ret),
                               step |-> Len(hist), same |-> (r.s = it) ])
  /\ UNCHANGED << hist, falses, nRetain, nRelease, valueVars, listVars, jsonVars,
                  elem, tj, wr, conc, buildVars >>

NextStep == DoStepNext \/ DoStepRetain \/ DoStepRelease \/ DoStepValues

SpecStep == InitStep /\ [][NextStep]_vars

\* ------------ specification: a step iterator built by NewStepIterator
DirectMaxRows == 2

\* The data types a caller hands to NewStepIterator: n of them, whatever
\* the number of iterators.
DirectDtypes(n) == [ j \in 1..n |-> IF j % 2 = 1 THEN "Int64" ELSE "Boolean" ]

\* StepValue.Value(i) (i counted from 1): sv.Values[i] and sv.Dtypes[i]; an
\* index outside either slice panics.
StepValueValue(sv, i) ==
  IF i \in DOMAIN sv.Values /\ i \in DOMAIN sv.Dtypes
  THEN [ panic |-> FALSE, value |-> sv.Values[i], dtype |-> sv.Dtypes[i] ]
  ELSE [ panic |-> TRUE, value |-> NilValue, dtype |-> "" ]

\* The caller makes one value iterator per column, keeps its reference on
\* each, and hands them to NewStepIterator with a dtypes slice of its own.
InitStepDirect ==
  /\ \E rows \in [1..NumCols -> 0..DirectMaxRows] :
       \E size \in 1..StepMaxChunkLen :
         \E period \in NullPeriods : \E asserts \in BOOLEAN :
           \E n \in 0..(NumCols + 1) :
             it = NewStepIterator(asserts, DirectDtypes(n),
                    [ i \in 1..NumCols |->
                        NewValueIterator(TableDtypes[i], asserts,
                                         MkTable(rows, size, period)[i]) ])
  /\ hist = << >>
  /\ falses = 0
  /\ nRetain = 0
  /\ nRelease = 0
  /\ vr = NoValueIterator
  /\ out = << >>
  /\ acqAtEnd = 0
  /\ child = NoChild
  /\ elems = << >>
  /\ dtype = NoDataType
  /\ json = NoJSON
  /\ AuxInit

SpecStepDirect == InitStepDirect /\ [][NextStep]_vars

\* -------------------------------------- specification: one list iterator
\* The raw entry lengths of a list chunk.
ListLens == UNION { [1..k -> 0..MaxListLen] : k \in 1..MaxListEntries }

Reverse(s) == [ i \in 1..Len(s) |-> s[Len(s) + 1 - i] ]

\* The list array whose raw entry j has lens[j] elements and is null iff
\* j \in nulls, seen from raw entry `offset` on, over the values array.
MkListArray(lens, nulls, offset, values) ==
  [ cells   |-> [ i \in 1..(Len(lens) - offset) |->
                    [ v |-> offset + i, valid |-> (offset + i) \notin nulls ] ],
    fields  |-> << >>,
    offset  |-> offset,
    offsets |-> [ k \in 1..(Len(lens) + 1) |-> SumTo(lens, k - 1) ],
    values  |-> values ]

\* The values array of n scalar elements base+1 .. base+n, every period-th
\* of them null.
MkValues(n, period, base) ==
  MkColumn(<< n >>, { p \in 1..n : period > 0 /\ p % period = 0 }, base)[1]

\* A list column of scalars: chunk k has the entry lengths lens (reversed in
\* even chunks) and elements 100 * k + 1, ...
MkListColumn(nchunks, lens, nulls, offset, period) ==
  [ k \in 1..nchunks |->
      MkListArray(IF k % 2 = 1 THEN lens ELSE Reverse(lens), nulls, offset,
                  MkValues(Sum(lens), period, 100 * k)) ]

InitList ==
  /\ \E nchunks \in 1..MaxListChunks : \E lens \in ListLens :
       \E nulls \in SUBSET (1..Len(lens)) :
         \E offset \in 0..MaxListOffset : \E period \in { 0, 2 } :
           /\ offset <= Len(lens)
           /\ vr = NewListValueIterator(TRUE,
                     MkListColumn(nchunks, lens, nulls, offset, period))
  /\ out = << >>
  /\ falses = 0
  /\ acqAtEnd = 0
  /\ nRetain = 0
  /\ nRelease = 0
  /\ it = NoStepIterator
  /\ hist = << >>
  /\ child = NoChild
  /\ elems = << >>
  /\ dtype = NoDataType
  /\ json = NoJSON
  /\ AuxInit

\* vr.Next() of the caller's loop over the list entries; what was read from
\* the entry before is dropped.
DoListNext ==
  /\ vr.refCount >= 1 /\ ~ vr.panicked
  /\ falses < MaxFalseCalls
  /\ \E n \in { IteratorNext(vr) } :
       /\ vr' = n
       /\ out' = IF n.ret THEN Append(out, Value(n)) ELSE out
       /\ falses' = IF n.ret THEN falses ELSE falses + 1
       /\ acqAtEnd' = IF falses = 0 /\ ~ n.ret THEN n.acquired ELSE acqAtEnd
  /\ child' = NoChild
  /\ elems' = << >>
  /\ UNCHANGED << nRetain, nRelease, it, hist, jsonVars, auxVars >>

\* vr.ValueInterface() on the current entry; chunk and index record where
\* it was called.
DoListValueInterface ==
  /\ vr.ret /\ vr.refCount >= 1 /\ ~ vr.panicked
  /\ ~ child.has
  /\ child' = [ has |-> TRUE, val |-> ListValueInterface(vr),
                chunk |-> vr.ref, index |-> vr.index ]
  /\ elems' = << >>
  /\ UNCHANGED << vr, out, falses, acqAtEnd, nRetain, nRelease, it, hist, jsonVars, auxVars >>

\* Next on the child iterator, and ValueInterface when it returned true.
DoChildNext ==
  /\ child.has /\ ~ child.val.nil
  /\ child.val.iter.refCount >= 1 /\ ~ child.val.iter.done
  /\ \E n \in { IteratorNext(child.val.iter) } :
       /\ child' = [ child EXCEPT !.val.iter = n ]
       /\ elems' = IF n.ret THEN Append(elems, IteratorValueInterface(n)) ELSE elems
  /\ UNCHANGED << vr, out, falses, acqAtEnd, nRetain, nRelease, it, hist, jsonVars, auxVars >>

\* Release of the child iterator by the caller that received it.
DoChildRelease ==
  /\ child.has /\ ~ child.val.nil
  /\ child.val.iter.refCount >= 1
  /\ child' = [ child EXCEPT !.val.iter = IteratorRelease(@) ]
  /\ UNCHANGED << vr, out, falses, acqAtEnd, nRetain, nRelease, it, hist, elems, jsonVars, auxVars >>

\* The caller's deferred vr.Release().
DoListRelease ==
  /\ vr.refCount >= 1 /\ ~ vr.panicked
  /\ vr' = IteratorRelease(vr)
  /\ nRelease' = nRelease + 1
  /\ UNCHANGED << out, falses, acqAtEnd, nRetain, it, hist, listVars, jsonVars, auxVars >>

NextList ==
  \/ DoListNext
  \/ DoListValueInterface
  \/ DoChildNext
  \/ DoChildRelease
  \/ DoListRelease

SpecList == InitList /\ [][NextList]_vars

\* ------------------------------------ specification: the materializer
\* The body of the loop of rowToJSON for one field: the value is
\* materialized when the column has one at this step, and is nil otherwise.
rowFieldToJSON(dt, exists, value) ==
  IF exists THEN rowElementToJSON(dt, value) ELSE Returned(JNil)

\* A list column of lists of scalars, in one chunk: outer entry j has
\* lens[j] inner lists; inner list q has q % (MaxListLen + 1) elements and is
\* null iff period > 0 and q is a multiple of period.
MkNestedListColumn(lens, nulls, offset, period) ==
  LET n      == Sum(lens)
      ilens  == [ q \in 1..n |-> q % (MaxListLen + 1) ]
      inulls == { q \in 1..n : period > 0 /\ q % period = 0 }
  IN  << MkListArray(lens, nulls, offset,
           MkListArray(ilens, inulls, 0, MkValues(Sum(ilens), 3, 100))) >>

\* A struct column for the materializer.  Chunk k is a struct array of
\* shape[k] entries seen from raw entry `offset` on (a slice when offset >
\* 0); its field sub-arrays are the whole child arrays, of offset +
\* shape[k] cells (the Field(i) of a sliced struct array is the child as it
\* was before the slice).  Raw cell r of a scalar field f holds 100 * f + r
\* and is null iff period > 0 and r is a multiple of period; the last
\* field, if listField, is a list array whose raw entry r has
\* r % (MaxListLen + 1) elements and is null iff period > 0 and f + r is a
\* multiple of period.
MkStructColumnForJSON(shape, nulls, nf, offset, period, listField) ==
  [ k \in 1..Len(shape) |->
      LET n    == offset + shape[k]
          lens == [ r \in 1..n |-> r % (MaxListLen + 1) ]
      IN  [ cells  |-> [ i \in 1..shape[k] |->
                           [ v     |-> offset + i,
                             valid |-> (SumTo(shape, k - 1) + i) \notin nulls ] ],
            offset |-> offset,
            fields |-> [ f \in 1..nf |->
                           IF listField /\ f = nf
                           THEN MkListArray(lens,
                                  { r \in 1..n : period > 0 /\ (f + r) % period = 0 },
                                  0, MkValues(Sum(lens), 0, 100 * f))
                           ELSE MkValues(n, period, 100 * f) ] ] ]

\* The iterators whose values are materialized: over a scalar column, a
\* list column, a column of lists of lists, a struct column.
JSONIterators ==
  { NewValueIterator(kind, FALSE, MkColumn(<< n >>, nulls, 0)) :
      kind \in Kinds, n \in 1..MaxChunkLen, nulls \in SUBSET (1..MaxChunkLen) }
  \cup
  { NewListValueIterator(FALSE, MkListColumn(1, lens, nulls, offset, period)) :
      lens \in ListLens, nulls \in SUBSET (1..MaxListEntries),
      offset \in 0..1, period \in { 0, 2 } }
  \cup
  { NewListValueIterator(FALSE, MkNestedListColumn(lens, nulls, 0, period)) :
      lens \in ListLens, nulls \in SUBSET (1..MaxListEntries), period \in { 0, 2 } }
  \cup
  { NewStructValueIterator(FALSE, MkStructColumnForJSON(s, nulls, nf, offset, period, lf)) :
      s \in StructShapes, nulls \in SUBSET (1..MaxStructRows), nf \in 0..MaxFields,
      offset \in 0..1, period \in { 0, 3 }, lf \in BOOLEAN }

\* The data types handed to the materializer with the values of iterator w:
\* the type of its column, NULL, and the types rowElementToJSON has no case
\* for.
JSONDataTypes(w) ==
  { IteratorDataType(w) }
    \cup { DataType(id, << >>) : id \in UnsupportedIds \cup { "NULL" } }

InitJSON ==
  /\ \E w \in JSONIterators : \E dt \in JSONDataTypes(w) :
       /\ vr = w
       /\ dtype = dt
  /\ out = << >>
  /\ falses = 0
  /\ acqAtEnd = 0
  /\ nRetain = 0
  /\ nRelease = 0
  /\ it = NoStepIterator
  /\ hist = << >>
  /\ child = NoChild
  /\ elems = << >>
  /\ json = NoJSON
  /\ AuxInit

\* vr.Next() of the loop over the rows.
DoJSONNext ==
  /\ vr.refCount >= 1 /\ ~ vr.panicked
  /\ falses < 1
  /\ \E n \in { IteratorNext(vr) } :
       /\ vr' = n
       /\ out' = IF n.ret THEN Append(out, Value(n)) ELSE out
       /\ falses' = IF n.ret THEN falses ELSE falses + 1
       /\ acqAtEnd' = IF falses = 0 /\ ~ n.ret THEN n.acquired ELSE acqAtEnd
  /\ json' = NoJSON
  /\ UNCHANGED << nRetain, nRelease, it, hist, listVars, dtype, auxVars >>

\* The value at the row is materialized; after Next has returned false the
\* column has no value at the row.
DoMaterialize ==
  /\ vr.refCount >= 1 /\ ~ vr.panicked
  /\ vr.ret \/ vr.done
  /\ json = NoJSON
  /\ json' = rowFieldToJSON(dtype, vr.ret, IF vr.ret THEN IteratorValueInterface(vr) ELSE NilValue)
  /\ UNCHANGED << vr, out, falses, acqAtEnd, nRetain, nRelease, it, hist, listVars, dtype, auxVars >>

NextJSON == DoJSONNext \/ DoMaterialize

SpecJSON == InitJSON /\ [][NextJSON]_vars

\* ------------- specification: a value handed to rowElementToJSON directly
MaxByteWidth == 2

\* The bytes the inputs are made of: both nibbles zero, a letter digit in
\* the low nibble, letter digits in both, all bits set.
ByteSamples == { 0, 10, 171, 255 }

ByteSlices == UNION { [1..n -> ByteSamples] : n \in 1..MaxByteWidth }

\* The (data type, value) pairs: decimals of every pair of halves and a
\* value of another dynamic type under the decimal type; single bytes and
\* byte slices under fixed-size-binary types.
ElementInputs ==
  { [ dt |-> DataType("DECIMAL", << >>), value |-> NumValue(New(hi, lo)) ] :
      hi \in SignedHalf, lo \in UnsignedHalf }
  \cup
  { [ dt |-> DataType("DECIMAL", << >>), value |-> [ nil |-> FALSE, v |-> 1 ] ] }
  \cup
  { [ dt |-> FixedSizeBinaryType(w), value |-> ByteValue(b) ] :
      w \in 1..MaxByteWidth, b \in ByteSamples }
  \cup
  { [ dt |-> FixedSizeBinaryType(w), value |-> BytesValue(bs) ] :
      w \in 1..MaxByteWidth, bs \in ByteSlices }

\* No iterator is involved.
IdleIterators ==
  /\ vr = NoValueIterator
  /\ out = << >>
  /\ falses = 0
  /\ acqAtEnd = 0
  /\ nRetain = 0
  /\ nRelease = 0
  /\ it = NoStepIterator
  /\ hist = << >>
  /\ child = NoChild
  /\ elems = << >>

InitElement ==
  /\ IdleIterators
  /\ \E x \in ElementInputs :
       /\ dtype = x.dt
       /\ elem = x.value
  /\ json = NoJSON
  /\ tj = NoToJSON
  /\ wr = NoWriter
  /\ conc = NoShared
  /\ got = << >>
  /\ NoBuild

\* rowElementToJSON(dtype, elem).
DoElementToJSON ==
  /\ json = NoJSON
  /\ json' = rowElementToJSON(dtype, elem)
  /\ UNCHANGED << vr, out, falses, acqAtEnd, nRetain, nRelease, it, hist, listVars, dtype, elem, tj, wr, conc, got, buildVars >>

NextElement == DoElementToJSON

SpecElement == InitElement /\ [][NextElement]_vars

\* --------------------------------------------- specification: ToJSON
ToJSONMaxRows == 3

\* The field names of the schema, by column.
ColNames == << "col0", "col1" >>

\* df.Schema(): the name and data type of each column.
Schema(st) ==
  [ j \in 1..Len(st.iterators) |->
      [ Name |-> ColNames[j], Type |-> IteratorDataType(st.iterators[j]) ] ]

RECURSIVE rowToJSONFrom(_, _, _, _)
RECURSIVE rowFieldAdded(_, _, _, _, _)

\* Mutant of the loop of rowToJSON: a column without a value at the row gets
\* no key.
rowToJSONFromSkipMissing(fields, sv, i, obj) ==
  IF i > Len(fields)
  THEN Returned(JObj(obj))
  ELSE IF ~ sv.Exists[i]
  THEN rowToJSONFrom(fields, sv, i + 1, obj)
  ELSE rowFieldAdded(fields, sv, i, obj,
         rowFieldToJSON(fields[i].Type, sv.Exists[i], sv.Values[i]))

\* The loop of rowToJSON from field i on: the field's value is materialized
\* if it exists and put under the field's name; the first error ends it.
rowToJSONFrom(fields, sv, i, obj) ==
  IF i > Len(fields)
  THEN Returned(JObj(obj))
  ELSE rowFieldAdded(fields, sv, i, obj,
         rowFieldToJSON(fields[i].Type, sv.Exists[i], sv.Values[i]))

\* The rest of that loop once field i is materialized as el.
rowFieldAdded(fields, sv, i, obj, el) ==
  IF el.panic \/ el.err # ""
  THEN el
  ELSE rowToJSONFrom(fields, sv, i + 1,
         [ k \in DOMAIN obj \cup { fields[i].Name } |->
             IF k = fields[i].Name THEN el.val ELSE obj[k] ])

\* rowToJSON(schema, stepValue).
rowToJSON(schema, sv) == rowToJSONFrom(schema, sv, 1, << >>)

\* enc.Encode(jsonObj) on a writer whose failAt-th write fails (0: none
\* does): the object is written as one line, or the write error returned.
Encode(w, jsonObj) ==
  IF w.failAt = Len(w.lines) + 1
  THEN [ w |-> w, err |-> "write failed" ]
  ELSE [ w |-> [ w EXCEPT !.lines = Append(@, jsonObj) ], err |-> "" ]

\* ToJSON returns err; the deferred it.Release() runs.
ToJSONReturn(t, st, w, err) ==
  [ tj |-> [ t EXCEPT !.pc = "returned", !.err = err ],
    it |-> StepIteratorRelease(st),
    wr |-> w ]

\* Mutant of the end of a loop iteration: the error of Encode is dropped and
\* the loop goes on.
ToJSONEncodedIgnoreError(t, st, w, e) ==
  [ tj |-> t, it |-> st, wr |-> e.w ]

\* The end of a loop iteration, after enc.Encode.
ToJSONEncoded(t, st, w, e) ==
  IF e.err # ""
  THEN ToJSONReturn(t, st, w, e.err)
  ELSE [ tj |-> t, it |-> st, wr |-> e.w ]

\* A loop iteration after rowToJSON: a panic unwinds through the deferred
\* Release, an error is returned, else the object is encoded.
ToJSONRow(t, st, w, row) ==
  IF row.panic
  THEN [ tj |-> [ t EXCEPT !.pc = "panicked", !.panic = TRUE, !.err = row.err ],
         it |-> StepIteratorRelease(st),
         wr |-> w ]
  ELSE IF row.err # ""
  THEN ToJSONReturn(t, st, w, row.err)
  ELSE ToJSONEncoded(t, st, w, Encode(w, row.val))

\* The child iterators a StepValue holds: those that
\* ListValueIterator.ValueInterface built in stepIterator.Next, one for
\* each list column with an entry at this step that is not null.
ChildrenBuilt(sv) ==
  Cardinality({ i \in 1..Len(sv.Values) : sv.Exists[i] /\ IsIterator(sv.Values[i]) })

\* The fields the loop of rowToJSON gets to: those before which no field
\* returned an error or panicked.
FieldsReached(fields, sv) ==
  { i \in 1..Len(fields) :
      \A j \in 1..(i - 1) :
        \E r \in { rowFieldToJSON(fields[j].Type, sv.Exists[j], sv.Values[j]) } :
          ~ r.panic /\ r.err = "" }

\* Mutant of ChildrenReleased: the Release is not deferred but made in the
\* loop over the elements, so that the child of an empty list is not
\* released.
ChildrenReleasedInLoop(fields, sv) ==
  Cardinality({ i \in FieldsReached(fields, sv) :
                  /\ sv.Exists[i]
                  /\ fields[i].Type.id = "LIST"
                  /\ IsIterator(sv.Values[i])
                  /\ Len(Flatten(sv.Values[i].iter.col)) > 0 })

\* The child iterators rowToJSON releases: the LIST case of
\* rowElementToJSON defers valueIterator.Release(), so the child of each
\* list field the loop gets to is released, whatever the outcome of its
\* materialization.  (The elements of the lists written are scalars: no
\* child is built inside a child.)
ChildrenReleased(fields, sv) ==
  Cardinality({ i \in FieldsReached(fields, sv) :
                  /\ sv.Exists[i]
                  /\ fields[i].Type.id = "LIST"
                  /\ IsIterator(sv.Values[i]) })

\* One turn of `for it.Next()` in ToJSON, n being what it.Next() gave.
ToJSONLoop(t, w, n) ==
  IF ~ n.ret
  THEN ToJSONReturn([ t EXCEPT !.built = @ + ChildrenBuilt(n.s.stepValue) ], n.s, w, "")
  ELSE ToJSONRow([ t EXCEPT !.built = @ + ChildrenBuilt(n.s.stepValue),
                            !.released = @ + ChildrenReleased(t.schema, n.s.stepValue) ],
                 n.s, w, rowToJSON(t.schema, n.s.stepValue))

\* The columns of the DataFrames written: two scalar columns of up to
\* ToJSONMaxRows rows each, cut into chunks of `size` rows, with a null in
\* both at the rows in nulls; or a scalar column and a list column.
ToJSONFrames ==
  { [ dtypes |-> << "Int64", "Boolean" >>,
      cols   |-> [ j \in 1..2 |->
                     MkColumn(ChunkSizes(rows[j], size),
                              { i \in 1..rows[j] : i \in nulls }, 10 * j) ] ] :
      rows \in [1..2 -> 0..ToJSONMaxRows], size \in 1..2,
      nulls \in SUBSET (1..ToJSONMaxRows) }
  \cup
  { [ dtypes |-> << "Int64", "List" >>,
      cols   |-> << MkColumn(ChunkSizes(n, 2), { i \in 1..n : i \in nulls }, 10),
                    MkListColumn(nch, lens, nulls, 0, 2) >> ] :
      n \in 0..ToJSONMaxRows, nulls \in SUBSET (1..ToJSONMaxRows),
      nch \in 1..2, lens \in { << 1 >>, << 0, 2 >> } }

InitToJSON ==
  /\ \E f \in ToJSONFrames :
       it = NewStepIteratorForColumns(TRUE, f.dtypes, f.cols)
  /\ tj = [ pc |-> "loop", err |-> "", panic |-> FALSE, schema |-> Schema(it),
            built |-> 0, released |-> 0 ]
  /\ \E k \in 0..ToJSONMaxRows : wr = [ lines |-> << >>, failAt |-> k ]
  /\ hist = << >>
  /\ falses = 0
  /\ nRetain = 0
  /\ nRelease = 0
  /\ vr = NoValueIterator
  /\ out = << >>
  /\ acqAtEnd = 0
  /\ child = NoChild
  /\ elems = << >>
  /\ dtype = NoDataType
  /\ json = NoJSON
  /\ elem = NilValue
  /\ conc = NoShared
  /\ got = << >>
  /\ NoBuild

\* ToJSON runs one turn of its loop: it.Next(), and then the row is
\* written, or ToJSON returns.
DoToJSONLoop ==
  /\ tj.pc = "loop"
  /\ \E n \in { StepIteratorNext(it) } :
       \E r \in { ToJSONLoop(tj, wr, n) } :
         /\ tj' = r.tj
         /\ it' = r.it
         /\ wr' = r.wr
         /\ hist' = Append(hist, [ ret |-> n.ret, sv |-> n.s.stepValue ])
  /\ UNCHANGED << falses, nRetain, nRelease, valueVars, listVars, jsonVars, elem, conc, got, buildVars >>

NextToJSON == DoToJSONLoop

SpecToJSON == InitToJSON /\ [][NextToJSON]_vars

\* ------------- specification: threads that Retain and Release an iterator
NumThreads == 2

MaxSharedRetains == 2

Threads == 1..NumThreads

\* A typed value iterator as Retain and Release see it: the count, the
\* chunk cursor and the chunk held (or not, if Next was never called), and
\* per thread where its Release call is (pc), the value AddInt64 returned to
\* it (refs) and the references it owns (owned).  The iterator is created
\* by thread 1.
NewShared(kind, asserts, held) ==
  [ kind        |-> kind,
    asserts     |-> asserts,
    refCount    |-> 1,
    hasCI       |-> TRUE,
    ref         |-> held,
    pc          |-> [ t \in Threads |-> "idle" ],
    refs        |-> [ t \in Threads |-> 0 ],
    owned       |-> [ t \in Threads |-> IF t = 1 THEN 1 ELSE 0 ],
    ciReleases  |-> 0,
    refReleases |-> 0,
    retains     |-> 0,
    panicked    |-> FALSE ]

\* Retain: atomic.AddInt64(&vr.refCount, 1); the caller owns one more.
SharedRetain(c, t) ==
  [ c EXCEPT !.refCount = @ + 1, !.owned[t] = @ + 1, !.retains = @ + 1 ]

\* A reference is passed from thread t to thread u.
SharedHandOver(c, t, u) ==
  [ c EXCEPT !.owned[t] = @ - 1, !.owned[u] = @ + 1 ]

\* BooleanValueIterator.Release, first statement: the count is loaded and
\* asserted positive.
SharedReleaseAssert(c, t) ==
  IF c.asserts /\ ~ (c.refCount > 0)
  THEN [ c EXCEPT !.panicked = TRUE ]
  ELSE [ c EXCEPT !.pc[t] = "add" ]

\* atomic.AddInt64(&vr.refCount, -1): the count is decremented and the new
\* value returned to the caller, in one step.
SharedReleaseAdd(c, t) ==
  [ c EXCEPT !.refCount = @ - 1, !.refs[t] = c.refCount - 1, !.pc[t] = "test" ]

\* Mutant of SharedReleaseRefs: the count is read again.
SharedReleaseRefsReread(c, t) == c.refCount

\* The value Release compares with zero: what AddInt64 returned.
SharedReleaseRefs(c, t) == c.refs[t]

\* The test after the decrement (the template iterators assert refs >= 0
\* here): the cleanup follows iff the value is zero.
SharedReleaseTest(c, t) ==
  IF c.kind # "Boolean" /\ c.asserts /\ ~ (c.refs[t] >= 0)
  THEN [ c EXCEPT !.panicked = TRUE ]
  ELSE IF SharedReleaseRefs(c, t) = 0
       THEN [ c EXCEPT !.pc[t] = "clean_ci" ]
       ELSE [ c EXCEPT !.pc[t] = "idle" ]

\* if vr.chunkIterator != nil { vr.chunkIterator.Release(); ... = nil }.
SharedCleanCI(c, t) ==
  IF c.hasCI
  THEN [ c EXCEPT !.ciReleases = @ + 1, !.hasCI = FALSE, !.pc[t] = "clean_ref" ]
  ELSE [ c EXCEPT !.pc[t] = "clean_ref" ]

\* if vr.ref != nil { vr.ref.Release(); vr.ref = nil }.
SharedCleanRef(c, t) ==
  IF c.ref
  THEN [ c EXCEPT !.refReleases = @ + 1, !.ref = FALSE, !.pc[t] = "idle" ]
  ELSE [ c EXCEPT !.pc[t] = "idle" ]

InitShared ==
  /\ IdleIterators
  /\ dtype = NoDataType
  /\ json = NoJSON
  /\ elem = NilValue
  /\ tj = NoToJSON
  /\ wr = NoWriter
  /\ got = << >>
  /\ NoBuild
  /\ \E kind \in Kinds : \E asserts \in BOOLEAN : \E held \in BOOLEAN :
       conc = NewShared(kind, asserts, held)

SharedFrame ==
  UNCHANGED << vr, out, falses, acqAtEnd, nRetain, nRelease, it, hist, listVars, jsonVars, elem, tj, wr, got, buildVars >>

\* A thread that owns a reference calls Retain.
DoSharedRetain ==
  /\ ~ conc.panicked
  /\ conc.retains < MaxSharedRetains
  /\ \E t \in Threads :
       /\ conc.pc[t] = "idle"
       /\ conc.owned[t] >= 1
       /\ conc' = SharedRetain(conc, t)
  /\ SharedFrame

\* A thread passes one of its references to another thread.
DoSharedHandOver ==
  /\ ~ conc.panicked
  /\ \E t \in Threads : \E u \in Threads \ { t } :
       /\ conc.pc[t] = "idle"
       /\ conc.owned[t] >= 1
       /\ conc' = SharedHandOver(conc, t, u)
  /\ SharedFrame

\* A thread that owns a reference calls Release and runs its first
\* statement; the reference is no longer the thread's to use.
DoSharedRelease ==
  /\ ~ conc.panicked
  /\ \E t \in Threads :
       /\ conc.pc[t] = "idle"
       /\ conc.owned[t] >= 1
       /\ \E c \in { [ conc EXCEPT !.owned[t] = @ - 1 ] } :
            conc' = IF c.kind = "Boolean"
                    THEN SharedReleaseAssert(c, t)
                    ELSE SharedReleaseAdd(c, t)
  /\ SharedFrame

\* The decrement of a Release that has asserted.
DoSharedAdd ==
  /\ ~ conc.panicked
  /\ \E t \in Threads :
       /\ conc.pc[t] = "add"
       /\ conc' = SharedReleaseAdd(conc, t)
  /\ SharedFrame

DoSharedTest ==
  /\ ~ conc.panicked
  /\ \E t \in Threads :
       /\ conc.pc[t] = "test"
       /\ conc' = SharedReleaseTest(conc, t)
  /\ SharedFrame

DoSharedCleanCI ==
  /\ ~ conc.panicked
  /\ \E t \in Threads :
       /\ conc.pc[t] = "clean_ci"
       /\ conc' = SharedCleanCI(conc, t)
  /\ SharedFrame

DoSharedCleanRef ==
  /\ ~ conc.panicked
  /\ \E t \in Threads :
       /\ conc.pc[t] = "clean_ref"
       /\ conc' = SharedCleanRef(conc, t)
  /\ SharedFrame

NextShared ==
  \/ DoSharedRetain
  \/ DoSharedHandOver
  \/ DoSharedRelease
  \/ DoSharedAdd
  \/ DoSharedTest
  \/ DoSharedCleanCI
  \/ DoSharedCleanRef

SpecShared == InitShared /\ [][NextShared]_vars

\* ------------------- specification: a column built from a []interface{}
MaxElms == 3

\* An element of a []interface{}: nil, or a value with its dynamic type
\* (a bool is kept as 0 or 1).
NilElm == [ nil |-> TRUE, ty |-> "nil", v |-> 0 ]

Elm(ty, v) == [ nil |-> FALSE, ty |-> ty, v |-> v ]

\* The elements the inputs are made of; complex128 stands for the types
\* DenseCollectionToInterface has no case for.
Elms ==
  { NilElm, Elm("int", 2), Elm("int", 4), Elm("int64", 6), Elm("bool", 1),
    Elm("complex128", 1) }

ElmSlices == UNION { [1..n -> Elms] : n \in 0..MaxElms }

\* What DenseCollectionToInterface and NewInterfaceFromMem hand back: a
\* typed slice (nil: isNil), an array, or an error.
NilSlice == [ isNil |-> TRUE, ty |-> "nil", vals |-> << >>, err |-> "" ]

TypedSlice(ty, vals) == [ isNil |-> FALSE, ty |-> ty, vals |-> vals, err |-> "" ]

SliceError(e) == [ isNil |-> TRUE, ty |-> "nil", vals |-> << >>, err |-> e ]

\* The index of the first element that is not nil, 0 if there is none.
FirstNonNil(s) ==
  IF \E i \in 1..Len(s) : ~ s[i].nil
  THEN CHOOSE i \in 1..Len(s) : ~ s[i].nil /\ \A k \in 1..(i - 1) : s[k].nil
  ELSE 0

\* The slice type DenseCollectionToInterface makes for a first element of
\* type ty: an int is widened to int64.
SliceTypeFor(ty) == IF ty = "bool" THEN "[]bool" ELSE "[]int64"

\* Mutant of DenseCollectionToInterface: the type is that of the first
\* element, nil or not.
DenseCollectionToInterfaceFirstElement(s) ==
  IF Len(s) = 0 THEN NilSlice
  ELSE IF s[1].nil THEN NilSlice
  ELSE LET ty == s[1].ty
       IN  IF ty \notin { "bool", "int64", "int" }
           THEN SliceError("invalid data type")
           ELSE IF \E i \in 1..Len(s) : ~ s[i].nil /\ s[i].ty # ty
           THEN SliceError("inconsistent data types")
           ELSE TypedSlice(SliceTypeFor(ty),
                  [ i \in 1..Len(s) |-> IF s[i].nil THEN 0 ELSE s[i].v ])

\* DenseCollectionToInterface: (nil, nil) for no elements or none that is
\* not nil; else a slice of the type of the first non-nil element, with the
\* zero value in place of each nil; an error if a non-nil element has
\* another type or the type has no case.
DenseCollectionToInterface(s) ==
  IF Len(s) = 0 THEN NilSlice
  ELSE IF FirstNonNil(s) = 0 THEN NilSlice
  ELSE LET ty == s[FirstNonNil(s)].ty
       IN  IF ty \notin { "bool", "int64", "int" }
           THEN SliceError("invalid data type")
           ELSE IF \E i \in 1..Len(s) : ~ s[i].nil /\ s[i].ty # ty
           THEN SliceError("inconsistent data types")
           ELSE TypedSlice(SliceTypeFor(ty),
                  [ i \in 1..Len(s) |-> IF s[i].nil THEN 0 ELSE s[i].v ])

\* bld.AppendValues(v, valid); bld.NewArray(): an empty valid means that
\* every value is valid.
AppendValues(vals, valid) ==
  [ cells  |-> [ i \in 1..Len(vals) |->
                   [ v |-> vals[i], valid |-> IF Len(valid) = 0 THEN TRUE ELSE valid[i] ] ],
    fields |-> << >> ]

\* NewInterfaceFromMem on a typed slice (the []bool and []int64 cases) or on
\* nil (the default case): the array and its data type, or an error.
NewInterfaceFromSlice(slice, valid) ==
  IF slice.isNil
  THEN [ arr |-> << >>, dataType |-> "none", err |-> "invalid data type" ]
  ELSE [ arr      |-> AppendValues(slice.vals, valid),
         dataType |-> IF slice.ty = "[]bool" THEN "BOOL" ELSE "INT64",
         err      |-> "" ]

\* NewInterfaceFromMem(mem, name, values, valid), the []interface{} case:
\* without a mask, the mask is value != nil; the elements are made a typed
\* slice, and the function is called again on it.
NewInterfaceFromMem(v, valid) ==
  LET validDense == IF Len(valid) = 0
                    THEN [ idx \in 1..Len(v) |-> ~ v[idx].nil ]
                    ELSE valid
      ifaceDense == DenseCollectionToInterface(v)
  IN  IF ifaceDense.err # ""
      THEN [ arr |-> << >>, dataType |-> "none", err |-> ifaceDense.err ]
      ELSE NewInterfaceFromSlice(ifaceDense, validDense)

\* NewColumnFromMem(mem, name, values): a column of one chunk, the array
\* NewInterfaceFromMem made without a mask, or its error.
NewColumnFromMem(v) ==
  LET r == NewInterfaceFromMem(v, << >>)
  IN  IF r.err # ""
      THEN [ col |-> << >>, dataType |-> "none", err |-> r.err ]
      ELSE [ col |-> << r.arr >>, dataType |-> r.dataType, err |-> "" ]

InitColumn ==
  /\ IdleIterators
  /\ dtype = NoDataType
  /\ json = NoJSON
  /\ elem = NilValue
  /\ tj = NoToJSON
  /\ wr = NoWriter
  /\ conc = NoShared
  /\ got = << >>
  /\ elms \in ElmSlices
  /\ column = NoColumn
  /\ sb = NoSmartBuilder
  /\ rec = NoRecord
  /\ cast = NoCast

\* NewColumnFromMem(mem, name, elms).
DoNewColumnFromMem ==
  /\ column = NoColumn
  /\ column' = NewColumnFromMem(elms)
  /\ UNCHANGED << vr, out, falses, acqAtEnd, nRetain, nRelease, it, hist, listVars, jsonVars, elem, tj, wr, conc, got, elms, sb, rec, cast >>

NextColumn == DoNewColumnFromMem

SpecColumn == InitColumn /\ [][NextColumn]_vars

\* ---------- specification: the conversions of a dense and a sparse slice
\* The index slices of a sparse collection of n elements in a collection of
\* `size`: n distinct positions, counted from 0, in any order.
IndexSlices(n, size) ==
  { f \in [1..n -> 0..(size - 1)] : \A i, j \in 1..n : i # j => f[i] # f[j] }

\* The dense expansion of a sparse collection: the slice of length `size`
\* that holds s[i] at position indexes[i] and nil elsewhere.
DenseExpansion(s, indexes, size) ==
  [ p \in 1..size |->
      IF \E i \in 1..Len(s) : indexes[i] = p - 1
      THEN s[CHOOSE i \in 1..Len(s) : indexes[i] = p - 1]
      ELSE NilElm ]

\* SparseCollectionToInterface(elms, indexes, size): (nil, nil) for no
\* elements; else the type is that of elms[0], and a nil elms[0] falls to
\* the default case of the type switch as does a type without a case; an
\* error if a non-nil element has another type; else a slice of length
\* size with each non-nil element at its index and the zero value
\* elsewhere.
SparseCollectionToInterface(s, indexes, size) ==
  IF Len(s) = 0 THEN NilSlice
  ELSE IF s[1].nil \/ s[1].ty \notin { "bool", "int64", "int" }
  THEN SliceError("invalid data type")
  ELSE IF \E i \in 1..Len(s) : ~ s[i].nil /\ s[i].ty # s[1].ty
  THEN SliceError("inconsistent data types")
  ELSE TypedSlice(SliceTypeFor(s[1].ty),
         [ p \in 1..size |->
             IF \E i \in 1..Len(s) : indexes[i] = p - 1 /\ ~ s[i].nil
             THEN s[CHOOSE i \in 1..Len(s) : indexes[i] = p - 1].v
             ELSE 0 ])

\* A sparse collection: up to MaxElms elements at distinct indexes below a
\* size of up to MaxElms.
InitCast ==
  /\ IdleIterators
  /\ dtype = NoDataType
  /\ json = NoJSON
  /\ elem = NilValue
  /\ tj = NoToJSON
  /\ wr = NoWriter
  /\ conc = NoShared
  /\ got = << >>
  /\ elms \in ElmSlices
  /\ column = NoColumn
  /\ sb = NoSmartBuilder
  /\ rec = NoRecord
  /\ \E size \in Len(elms)..MaxElms : \E indexes \in IndexSlices(Len(elms), size) :
       cast = [ indexes |-> indexes, size |-> size, sparse |-> << >>, dense |-> << >> ]

CastFrame ==
  UNCHANGED << vr, out, falses, acqAtEnd, nRetain, nRelease, it, hist, listVars, jsonVars, elem, tj, wr, conc, got, elms, column, sb, rec >>

\* cast.SparseCollectionToInterface(elms, indexes, size).
DoSparseCollectionToInterface ==
  /\ cast.sparse = << >>
  /\ cast' = [ cast EXCEPT !.sparse =
                 << SparseCollectionToInterface(elms, cast.indexes, cast.size) >> ]
  /\ CastFrame

\* cast.DenseCollectionToInterface on the dense expansion.
DoDenseCollectionToInterface ==
  /\ cast.dense = << >>
  /\ cast' = [ cast EXCEPT !.dense =
                 << DenseCollectionToInterface(DenseExpansion(elms, cast.indexes, cast.size)) >> ]
  /\ CastFrame

NextCast == DoSparseCollectionToInterface \/ DoDenseCollectionToInterface

SpecCast == InitCast /\ [][NextCast]_vars

\* --------- specification: one Release call more than there are references
\* The ways to split n Release calls among the threads.
ReleaseCalls(n) == { f \in [Threads -> 0..n] : Sum([ t \in 1..NumThreads |-> f[t] ]) = n }

\* An iterator with k references on which the threads will call Release
\* k + 1 times between them: owned[t] is here the number of Release calls
\* thread t makes, as if it owned that many references.
NewOverReleased(kind, asserts, held, k, calls) ==
  [ NewShared(kind, asserts, held) EXCEPT !.refCount = k, !.owned = calls ]

InitOverRelease ==
  /\ IdleIterators
  /\ dtype = NoDataType
  /\ json = NoJSON
  /\ elem = NilValue
  /\ tj = NoToJSON
  /\ wr = NoWriter
  /\ got = << >>
  /\ NoBuild
  /\ \E kind \in Kinds : \E asserts \in BOOLEAN : \E held \in BOOLEAN :
       \E k \in 1..MaxSharedRetains : \E calls \in ReleaseCalls(k + 1) :
         conc = NewOverReleased(kind, asserts, held, k, calls)

NextOverRelease ==
  \/ DoSharedRelease
  \/ DoSharedAdd
  \/ DoSharedTest
  \/ DoSharedCleanCI
  \/ DoSharedCleanRef

SpecOverRelease == InitOverRelease /\ [][NextOverRelease]_vars

\* ------------------------------------ specification: a SmartBuilder
MaxAppends == 4

NumFields == 2

\* The field types of the schemas: two that initFieldAppender has a case
\* for and one it has none for.
SchemaTypes == { "INT64", "BOOL", "MAP" }

\* The values appended: nil, values of the Go types of the two field types,
\* and a Go int.
AppendedValues ==
  { NilElm, Elm("int64", 6), Elm("int64", 7), Elm("bool", 1), Elm("int", 2) }

\* initFieldAppender: the appender of a field type, named by the Go type
\* its type assertion asks for; "panic" where the switch has no case.
initFieldAppender(type) ==
  IF type = "INT64" THEN "int64"
  ELSE IF type = "BOOL" THEN "bool"
  ELSE "panic"

\* NewSmartBuilder(recordBuilder, schema): one appender per field, over a
\* record builder with one empty field builder per field.
NewSmartBuilder(fields) ==
  [ fields         |-> fields,
    fieldAppenders |-> [ i \in 1..Len(fields) |-> initFieldAppender(fields[i]) ],
    builders       |-> [ i \in 1..Len(fields) |-> << >> ],
    appended       |-> [ i \in 1..Len(fields) |-> << >> ],
    panicked       |-> \E i \in 1..Len(fields) : initFieldAppender(fields[i]) = "panic" ]

\* An appender applied to a field builder: AppendNull for nil; else the
\* type assertion v.(T), which panics on a value of another type, and
\* Append.  The result is the builder's cells and whether it panicked.
FieldAppend(goType, cells, v) ==
  IF v.nil
  THEN [ cells |-> Append(cells, [ v |-> 0, valid |-> FALSE ]), panicked |-> FALSE ]
  ELSE IF v.ty # goType
  THEN [ cells |-> cells, panicked |-> TRUE ]
  ELSE [ cells |-> Append(cells, [ v |-> v.v, valid |-> TRUE ]), panicked |-> FALSE ]

\* Mutant of SmartBuilder.Append: the builder is that of the first field.
SmartBuilderAppendFirstField(b, fieldIndex, v) ==
  LET r == FieldAppend(b.fieldAppenders[fieldIndex], b.builders[1], v)
  IN  [ b EXCEPT !.builders[1] = r.cells, !.panicked = r.panicked ]

\* SmartBuilder.Append(fieldIndex, v): the appender of the field is applied
\* to the builder of the field.
SmartBuilderAppend(b, fieldIndex, v) ==
  LET r == FieldAppend(b.fieldAppenders[fieldIndex], b.builders[fieldIndex], v)
  IN  [ b EXCEPT !.builders[fieldIndex] = r.cells, !.panicked = r.panicked ]

\* recordBuilder.NewRecord(): an array per field from what its builder
\* holds; it panics if the fields do not have the same number of rows.
NewRecord(b) ==
  IF \E i \in 1..Len(b.builders) : Len(b.builders[i]) # Len(b.builders[1])
  THEN [ built |-> FALSE, cols |-> << >>, panicked |-> TRUE ]
  ELSE [ built    |-> TRUE,
         cols     |-> [ i \in 1..Len(b.builders) |->
                          [ cells |-> b.builders[i], fields |-> << >> ] ],
         panicked |-> FALSE ]

InitBuilder ==
  /\ IdleIterators
  /\ dtype = NoDataType
  /\ json = NoJSON
  /\ elem = NilValue
  /\ tj = NoToJSON
  /\ wr = NoWriter
  /\ conc = NoShared
  /\ got = << >>
  /\ elms = << >>
  /\ column = NoColumn
  /\ \E fields \in [1..NumFields -> SchemaTypes] : sb = NewSmartBuilder(fields)
  /\ rec = NoRecord
  /\ cast = NoCast

BuilderFrame ==
  UNCHANGED << vr, out, falses, acqAtEnd, nRetain, nRelease, it, hist, listVars, jsonVars, elem, tj, wr, conc, got, elms, column, cast >>

\* smartBuilder.Append(i, v); sb.appended keeps what was passed.
DoAppend ==
  /\ ~ sb.panicked
  /\ rec = NoRecord
  /\ Sum([ i \in 1..NumFields |-> Len(sb.appended[i]) ]) < MaxAppends
  /\ \E i \in 1..NumFields : \E v \in AppendedValues :
       \E n \in { SmartBuilderAppend(sb, i, v) } :
         sb' = [ n EXCEPT !.appended[i] = Append(@, v) ]
  /\ UNCHANGED rec
  /\ BuilderFrame

\* b.NewRecord().
DoNewRecord ==
  /\ ~ sb.panicked
  /\ rec = NoRecord
  /\ rec' = NewRecord(sb)
  /\ UNCHANGED sb
  /\ BuilderFrame

NextBuilder == DoAppend \/ DoNewRecord

SpecBuilder == InitBuilder /\ [][NextBuilder]_vars

\* ------------------- specification: a value iterator or a step iterator
\* A run exercises either one value iterator (no column under the step
\* iterator) or one step iterator.
StepRun == Len(it.dtypes) > 0

InitAll == Init \/ InitStep

NextAll == (~ StepRun /\ Next) \/ (StepRun /\ NextStep)

SpecAll == InitAll /\ [][NextAll]_vars

\* ------------------------------------------------ properties under Spec
\* A reference is still held, the last Next returned true: the iterator is
\* positioned on a value.
Positioned == vr.ret /\ vr.refCount >= 1 /\ ~ vr.panicked

\* The iterator under test is one of the typed (scalar) value iterators.
Typed == vr.kind \in Kinds

\* The final Release has been issued: as many Release calls as references.
Released == nRelease = 1 + nRetain

\* The pairs a caller reads by calling Next until it returns false.
RECURSIVE DrainFrom(_, _)
DrainFrom(w, acc) ==
  LET n == ValueIteratorNext(w)
  IN  IF n.ret THEN DrainFrom(n, Append(acc, Value(n))) ELSE acc

Drain(w) == DrainFrom(w, << >>)

\* C1 -- Chunk-boundary transparency: the pairs read so far from the chunked
\* column are a prefix of the pairs read from one single chunk holding the
\* same cells, and equal to all of them once Next has returned false; pair i
\* is the i-th cell of the column, so nothing is skipped, repeated or moved.
C1_ChunkTransparency ==
  Typed =>
  LET single == Drain(NewValueIterator(vr.kind, vr.asserts, SingleChunk(vr.col)))
      flat   == Flatten(vr.col)
  IN  /\ Len(out) <= Len(single)
      /\ out = SubSeq(single, 1, Len(out))
      /\ falses > 0 => out = single
      /\ \A i \in 1..Len(out) :
           out[i] = [ v |-> flat[i].v, null |-> ~ flat[i].valid ]

\* Exhausted iteration over a chunk of two cells followed by a chunk of one,
\* with a null among them.
C1_Witness ==
  /\ Typed
  /\ falses > 0
  /\ Len(vr.col) = 2
  /\ ChunkLen(vr.col[1]) = 2
  /\ ChunkLen(vr.col[2]) = 1
  /\ Len(out) = 3
  /\ \E i \in 1..Len(out) : out[i].null

\* C3 -- Exhaustion idempotence: once a Next call has returned false, every
\* later Next call returns false, and the iterator acquires no further chunk.
C3_ExhaustionIdempotence ==
  /\ falses > 0 => ~ vr.ret
  /\ falses > 0 => vr.acquired = acqAtEnd

\* Two Next calls of a struct iterator over two chunks have returned false
\* after some entries were read.
C3_Witness ==
  /\ vr.kind = "Struct"
  /\ Len(vr.col) = 2
  /\ falses = 2
  /\ Len(out) >= 2

\* The same for a typed iterator.
C3_WitnessTyped == Typed /\ falses = 2 /\ Len(out) >= 2

\* C4 (as stated) -- Null projection with pointer identity: at the n-th
\* position, ValueInterface and ValuePointer are nil when the validity bit is
\* unset; otherwise they give the stored value and ValuePointer is the
\* address of the chunk's own element.
C4_NullProjectionOriginal ==
  (Typed /\ Positioned) =>
    LET c == Flatten(vr.col)[Len(out)]
    IN  IF ~ c.valid
        THEN ValueInterface(vr) = NilValue /\ ValuePointer(vr) = NilPointer
        ELSE /\ ValueInterface(vr) = [ nil |-> FALSE, v |-> c.v ]
             /\ ValuePointer(vr) =
                  [ nil |-> FALSE, chunk |-> vr.ref, idx |-> vr.index, v |-> c.v ]

\* C4 (amended) -- Null projection: at the n-th position, ValueInterface and
\* ValuePointer are nil when the validity bit is unset, whatever the raw
\* value; otherwise they give the stored value, ValuePointer being the
\* address of the chunk's own element for the template iterators and the
\* address of a copy of the value for the boolean iterator.
C4_NullProjection ==
  (Typed /\ Positioned) =>
    LET c == Flatten(vr.col)[Len(out)]
    IN  IF ~ c.valid
        THEN ValueInterface(vr) = NilValue /\ ValuePointer(vr) = NilPointer
        ELSE /\ ValueInterface(vr) = [ nil |-> FALSE, v |-> c.v ]
             /\ ValuePointer(vr).nil = FALSE
             /\ ValuePointer(vr).v = c.v
             /\ IF vr.kind = "Boolean"
                THEN ValuePointer(vr).chunk = 0
                ELSE /\ ValuePointer(vr).chunk = vr.ref
                     /\ ValuePointer(vr).idx = vr.index

\* Positioned on a null in the second chunk, after a valid value.
C4_Witness ==
  /\ Typed
  /\ Positioned
  /\ vr.ref = 2
  /\ Len(out) >= 2
  /\ ~ out[1].null
  /\ out[Len(out)].null
  /\ ValueInterface(vr) = NilValue

\* C7 -- Reference-count conservation: while fewer Release calls than
\* references have been issued nothing is released (the cursor is kept and
\* the held chunk stays retained); the Release that matches the last
\* reference releases the chunk cursor and the held chunk, once.
C7_RefCountConservation ==
  /\ nRelease < 1 + nRetain =>
       /\ vr.cleanups = 0
       /\ vr.ciReleases = 0
       /\ vr.hasCI
       /\ vr.acquired > 0 => (vr.ref # 0 /\ vr.rc[vr.ref] >= 2)
  /\ Released =>
       /\ vr.cleanups = 1
       /\ vr.ciReleases = 1
       /\ ~ vr.hasCI
       /\ vr.ref = 0

\* Two references, two releases, with a chunk held at the last one.
C7_Witness ==
  /\ nRetain = 1
  /\ nRelease = 2
  /\ vr.cleanups = 1
  /\ vr.acquired >= 1
  /\ vr.refCount = 0

\* C8 -- Leak freedom: after the final Release, whatever number of Next
\* calls came before it, every chunk's reference count is what it was
\* before the iterator was constructed.
C8_LeakFreedom ==
  Released => \A k \in 1..Len(vr.col) : vr.rc[k] = 1

\* Released in the middle of the second of three chunks.
C8_Witness ==
  /\ Released
  /\ Len(vr.col) = 3
  /\ vr.acquired = 2
  /\ falses = 0
  /\ Len(out) >= 2

\* C10 -- Zero-length chunks are skipped and iteration terminates: Next
\* returns true once per cell and then false; a position is always inside a
\* non-empty chunk; the cursor is polled at most once per chunk plus once.
C10_ZeroLengthChunks ==
  Typed =>
    /\ Len(out) <= Len(Flatten(vr.col))
    /\ falses > 0 => Len(out) = Len(Flatten(vr.col))
    /\ Positioned =>
         /\ vr.ref # 0
         /\ ChunkLen(vr.col[vr.ref]) > 0
         /\ vr.index < ChunkLen(vr.col[vr.ref])
    /\ vr.polls <= Len(vr.col) + 1

\* Exhausted iteration over a column whose middle chunk is empty.
C10_Witness ==
  /\ Typed
  /\ falses > 0
  /\ Len(vr.col) = 3
  /\ ChunkLen(vr.col[1]) > 0
  /\ ChunkLen(vr.col[2]) = 0
  /\ ChunkLen(vr.col[3]) > 0

\* C11 -- No chunk is held once exhausted: whenever a typed iterator's done
\* flag is set it holds no chunk reference (ref is nil), the last chunk
\* having been released when Next first returned false.
C11_NoChunkHeldWhenDone ==
  (Typed /\ vr.done) => vr.ref = 0

\* C12 -- Index validity: a new typed iterator has index 0 and holds no
\* chunk; after every Next that returned true it holds a chunk (retained on
\* its own account) and 0 <= index < length of that chunk, index being the
\* number of values read from that chunk so far, less one; so Value,
\* ValuePointer and ValueInterface read a cell of the held chunk.
C12_IndexValidity ==
  Typed =>
    /\ (vr.acquired = 0 /\ nRelease = 0 /\ falses = 0) => (vr.index = 0 /\ vr.ref = 0)
    /\ Positioned =>
         /\ vr.ref \in 1..Len(vr.col)
         /\ vr.rc[vr.ref] >= 2
         /\ 0 <= vr.index
         /\ vr.index < ChunkLen(vr.col[vr.ref])
         /\ vr.index = Len(out) - Len(FlattenTo(vr.col, vr.ref - 1)) - 1
         /\ Value(vr).v = vr.col[vr.ref].cells[vr.index + 1].v
         /\ ValuePointer(vr).nil = ~ vr.col[vr.ref].cells[vr.index + 1].valid
         /\ ValueInterface(vr).nil = ~ vr.col[vr.ref].cells[vr.index + 1].valid

\* Positioned on the second cell of the second chunk, after a chunk
\* transition.
C12_Witness ==
  /\ Typed
  /\ Positioned
  /\ vr.ref = 2
  /\ vr.index = 1
  /\ Len(out) = 3

\* Every field sub-array has the length of its struct chunk.
FieldsMatch(col) ==
  \A k \in 1..Len(col) : \A f \in 1..Len(col[k].fields) :
    ChunkLen(col[k].fields[f]) = ChunkLen(col[k])

\* C16 -- Struct lockstep: over a struct column whose field sub-arrays have
\* the lengths of their chunks, after every Next that returned true every
\* field iterator is positioned at the struct's index in the field
\* sub-array of the current chunk, and Next returns true once per entry of
\* the column (the sum of the chunk lengths) before it returns false.
C16_StructLockstep ==
  (vr.kind = "Struct" /\ FieldsMatch(vr.col)) =>
    /\ Positioned =>
         /\ 0 <= vr.index /\ vr.index < ChunkLen(Ref(vr))
         /\ Len(vr.fieldIterators) = Len(Ref(vr).fields)
         /\ \A f \in 1..Len(vr.fieldIterators) :
              /\ vr.fieldIterators[f].ret
              /\ vr.fieldIterators[f].index = vr.index
              /\ vr.fieldIterators[f].col = << Ref(vr).fields[f] >>
    /\ Len(out) <= Len(Flatten(vr.col))
    /\ falses > 0 => Len(out) = Len(Flatten(vr.col))

\* The same for struct types that have a field.
C16_StructLockstepWithFields ==
  (\A k \in 1..Len(vr.col) : Len(vr.col[k].fields) >= 1) => C16_StructLockstep

\* A struct column of two fields in two chunks was read to its end.
C16_Witness ==
  /\ vr.kind = "Struct"
  /\ FieldsMatch(vr.col)
  /\ Len(vr.col) = 2
  /\ Len(vr.col[1].fields) = 2
  /\ falses > 0
  /\ Len(out) = 2

\* C17 -- Struct length mismatch: over a struct column in which some field
\* sub-array differs in length from its chunk, the struct iterator never
\* stands on a row that a field iterator does not have or that lies past
\* the end of the struct chunk (where ValueInterface would read the
\* validity bitmap), and the iteration does not run to its end without the
\* mismatch being reported.
C17_StructLengthMismatch ==
  (vr.kind = "Struct" /\ ~ FieldsMatch(vr.col)) =>
    /\ Positioned =>
         /\ vr.index < ChunkLen(Ref(vr))
         /\ \A f \in 1..Len(vr.fieldIterators) : vr.fieldIterators[f].ret
    /\ falses > 0 => vr.panicked

\* -------------------------------------------- properties under SpecStep
\* The column read by the j-th iterator, and its number of rows.
ColumnOf(j) == it.iterators[j].col

RowsOf(j) == Len(Flatten(ColumnOf(j)))

\* The largest row count.
MaxRowsOf == CHOOSE m \in { RowsOf(j) : j \in 1..NumCols } : \A j \in 1..NumCols : RowsOf(j) <= m

\* The values (nil for a null) read from an iterator by calling Next until it
\* returns false.
RECURSIVE DrainInterfaceFrom(_, _)
DrainInterfaceFrom(w, acc) ==
  LET n == IteratorNext(w)
  IN  IF n.ret THEN DrainInterfaceFrom(n, Append(acc, ValueInterface(n))) ELSE acc

\* Direct single-column iteration of column j.
Direct(j) ==
  DrainInterfaceFrom(NewValueIterator(it.dtypes[j], it.asserts, ColumnOf(j)), << >>)

\* C2 -- Row alignment: over columns that all have R rows, Next call k
\* returns true iff k <= R, and after call k <= R entry j of the StepValue is
\* the k-th value (nil for a null) of column j under direct iteration.
C2_RowAlignment ==
  LET R == RowsOf(1)
  IN  (\A j \in 1..NumCols : RowsOf(j) = R) =>
        /\ \A k \in 1..Len(hist) : hist[k].ret = (k <= R)
        /\ \A j \in 1..NumCols :
             LET direct == Direct(j)
             IN  \A k \in 1..Len(hist) :
                   k <= R => hist[k].sv.Values[j] = direct[k]

\* The scenario of the specification: [1,2,null,4] and ["a",null,"c","d"],
\* each in two chunks of two, read to the end (values 11.. and 21..).
C2_Witness ==
  /\ NumCols = 2
  /\ \A j \in 1..NumCols : Len(ColumnOf(j)) = 2 /\ RowsOf(j) = 4
  /\ Len(hist) = 5
  /\ hist[1].sv.Values = << [ nil |-> FALSE, v |-> 11 ], [ nil |-> FALSE, v |-> 21 ] >>
  /\ hist[2].sv.Values = << [ nil |-> FALSE, v |-> 12 ], NilValue >>
  /\ hist[3].sv.Values = << NilValue, [ nil |-> FALSE, v |-> 23 ] >>
  /\ hist[4].sv.Values = << [ nil |-> FALSE, v |-> 14 ], [ nil |-> FALSE, v |-> 24 ] >>
  /\ ~ hist[5].ret

\* C5 -- Permissive exhaustion: Next returns the OR of the existence flags,
\* true exactly for calls 1..max(Rj); in call k, Exists[j] = (k <= Rj) and
\* Values[j] is nil when k > Rj; a call that returns false leaves a
\* StepValue whose flags are all false.
C5_PermissiveExhaustion ==
  LET rows == [ j \in 1..NumCols |-> RowsOf(j) ]
      maxR == MaxRowsOf
  IN  \A k \in 1..Len(hist) :
        /\ hist[k].ret = (\E j \in 1..NumCols : hist[k].sv.Exists[j])
        /\ hist[k].ret = (k <= maxR)
        /\ \A j \in 1..NumCols :
             /\ hist[k].sv.Exists[j] = (k <= rows[j])
             /\ k > rows[j] => hist[k].sv.Values[j] = NilValue
        /\ ~ hist[k].ret => \A j \in 1..NumCols : ~ hist[k].sv.Exists[j]

\* Ragged columns: the first is exhausted while the second still has rows,
\* and the iteration has run to its end.
C5_Witness ==
  /\ RowsOf(1) = 2
  /\ RowsOf(NumCols) = 4
  /\ Len(hist) = 6
  /\ hist[3].ret
  /\ ~ hist[3].sv.Exists[1]
  /\ hist[3].sv.Exists[NumCols]
  /\ ~ hist[5].ret

\* C6 -- Column order: in every StepValue, entry j of Dtypes is the data type
\* of the j-th column, entry j of Exists tells whether the j-th column has a
\* k-th row, and entry j of Values is nil or a value stored in the j-th
\* column (whose cells hold 10 * j + row).
C6_ColumnOrder ==
  \A j \in 1..NumCols :
    LET flat == Flatten(ColumnOf(j))
    IN  \A k \in 1..Len(hist) :
          /\ Len(hist[k].sv.Values) = NumCols
          /\ hist[k].sv.Dtypes[j] = it.iterators[j].kind
          /\ hist[k].sv.Exists[j] = (k <= Len(flat))
          /\ ~ hist[k].sv.Values[j].nil =>
               /\ hist[k].sv.Values[j].v = 10 * j + k
               /\ \E c \in 1..Len(flat) : flat[c].v = hist[k].sv.Values[j].v

\* A step in which the last column is exhausted and the first is not.
C6_Witness ==
  /\ RowsOf(1) = 3
  /\ RowsOf(NumCols) = 1
  /\ Len(hist) >= 2
  /\ hist[2].sv.Exists[1]
  /\ ~ hist[2].sv.Exists[NumCols]
  /\ hist[2].sv.Values[1] = [ nil |-> FALSE, v |-> 12 ]
  /\ hist[2].sv.Dtypes[1] # hist[2].sv.Dtypes[NumCols]

\* C9 -- NewStepIteratorForColumns leaves each column iterator with one
\* reference; the step iterator's final Release brings each count to zero,
\* runs each cleanup once and leaves every chunk count as it was.
C9_ColumnIteratorsOwned ==
  /\ nRelease < 1 + nRetain =>
       \A j \in 1..NumCols :
         it.iterators[j].refCount = 1 /\ it.iterators[j].cleanups = 0
  /\ Released =>
       \A j \in 1..NumCols :
         /\ it.iterators[j].refCount = 0
         /\ it.iterators[j].cleanups = 1
         /\ it.iterators[j].ciReleases = 1
         /\ it.iterators[j].ref = 0
         /\ \A c \in 1..Len(ColumnOf(j)) : it.iterators[j].rc[c] = 1

\* Constructed over multi-chunk columns and released without any Next.
C9_Witness ==
  /\ Released
  /\ nRetain = 0
  /\ hist = << >>
  /\ \A j \in 1..NumCols : Len(ColumnOf(j)) = 2
  /\ \A j \in 1..NumCols : it.iterators[j].cleanups = 1

\* ------------------------------------------- properties under SpecAll
\* More Release calls than references have been issued.
OverReleased == nRelease > 1 + nRetain

\* The cleanup of a value iterator has run at most once: the cursor and the
\* chunks were released at most once each, and so was every field iterator.
CleanedAtMostOnce(w) ==
  /\ w.cleanups <= 1
  /\ w.ciReleases <= 1
  /\ w.ci.refCount >= 0
  /\ \A k \in 1..Len(w.col) : w.rc[k] >= 1
  /\ w.fieldsCleaned <= w.fieldsBuilt
  /\ \A i \in 1..Len(w.fieldIterators) :
       /\ w.fieldIterators[i].cleanups <= 1
       /\ w.fieldIterators[i].refCount >= 0
       /\ w.fieldIterators[i].rc[1] >= 1

\* C13 -- Over-release is checked: when a Release call finds the reference
\* count of a value, struct or step iterator at zero or below, a build with
\* assertions panics ("too many releases"); with or without assertions the
\* cleanup is not run again: the cursor, the chunks, the field iterators
\* and the column iterators are released once at most.
C13_OverReleaseChecked ==
  /\ ~ StepRun =>
       /\ OverReleased => (vr.panicked = vr.asserts)
       /\ (OverReleased /\ ~ vr.asserts) => vr.refCount < 0
       /\ ~ OverReleased => ~ vr.panicked
       /\ CleanedAtMostOnce(vr)
  /\ StepRun =>
       /\ OverReleased => (it.panicked = it.asserts)
       /\ (OverReleased /\ ~ it.asserts) => it.refCount < 0
       /\ ~ OverReleased => ~ it.panicked
       /\ \A j \in 1..Len(it.iterators) :
            /\ CleanedAtMostOnce(it.iterators[j])
            /\ it.iterators[j].refCount >= 0
            /\ ~ it.iterators[j].panicked

\* A step iterator built with assertions was released once too often, after
\* its cleanup had released column iterators that held chunks.
C13_Witness ==
  /\ StepRun
  /\ it.asserts
  /\ OverReleased
  /\ it.panicked
  /\ \A j \in 1..Len(it.iterators) :
       it.iterators[j].cleanups = 1 /\ it.iterators[j].acquired >= 1

\* The same without assertions.
C13_WitnessNoAsserts ==
  /\ StepRun
  /\ ~ it.asserts
  /\ OverReleased
  /\ it.refCount < 0

\* A struct iterator released once too often after reading an entry.
C13_WitnessStruct ==
  /\ ~ StepRun
  /\ vr.kind = "Struct"
  /\ OverReleased
  /\ vr.fieldsBuilt >= 1
  /\ vr.fieldsCleaned = vr.fieldsBuilt

\* ------------------------------------------ properties under SpecList
\* The chunk and the raw entry on which ValueInterface was last called.
ChildChunk == vr.col[child.chunk]

ChildEntry == child.index + ChildChunk.offset

\* The elements of that entry: positions offsets[j] .. offsets[j+1]-1 of the
\* values array, nil for a null element.
ExpectedElems ==
  LET beg == ChildChunk.offsets[ChildEntry + 1]
      end == ChildChunk.offsets[ChildEntry + 2]
  IN  [ p \in 1..(end - beg) |->
          IF ChildChunk.values.cells[beg + p].valid
          THEN [ nil |-> FALSE, v |-> ChildChunk.values.cells[beg + p].v ]
          ELSE NilValue ]

\* C14 -- List entry scoping: ValueInterface on a null entry returns nil and
\* no iterator; on a non-null entry it returns an iterator, new at that
\* call (one reference, nothing read), whose values, read until Next
\* returns false, are the elements offsets[j] .. offsets[j+1]-1 of the
\* chunk's values array in order (none for an empty list), j being the
\* entry's position among the raw entries.
C14_ListEntryScoping ==
  child.has =>
    IF ~ ChildChunk.cells[child.index + 1].valid
    THEN child.val = NilValue
    ELSE /\ ~ child.val.nil
         /\ "iter" \in DOMAIN child.val
         /\ child.val.iter.polls = 0 =>
              (child.val.iter.refCount \in { 0, 1 } /\ child.val.iter.acquired = 0
                 /\ elems = << >>)
         /\ Len(elems) <= Len(ExpectedElems)
         /\ elems = SubSeq(ExpectedElems, 1, Len(elems))
         /\ child.val.iter.done => elems = ExpectedElems

\* The child of the last entry of a sliced second chunk was read to its
\* end: two elements, one of them null.
C14_Witness ==
  /\ child.has
  /\ child.chunk = 2
  /\ ChildChunk.offset = 1
  /\ ~ child.val.nil
  /\ child.val.iter.done
  /\ Len(elems) = 2
  /\ \E p \in 1..2 : elems[p] = NilValue

\* ValueInterface was called on a null entry.
C14_WitnessNull == child.has /\ child.val = NilValue

\* ValueInterface was called on an empty list that is not null.
C14_WitnessEmpty ==
  /\ child.has
  /\ ~ child.val.nil
  /\ child.val.iter.done
  /\ elems = << >>

\* ------------------------------------------ properties under SpecJSON
\* A value of the column was materialized with the column's own data type.
Materialized == json # NoJSON /\ vr.ret /\ dtype = IteratorDataType(vr)

\* What the cell at raw position j (from 0) of an array stands for: nil for
\* a null; the value of a scalar; for a list entry the sequence of what
\* its elements stand for.
RECURSIVE ExpectedJSON(_, _)
ExpectedJSON(arr, j) ==
  IF IsListArray(arr)
  THEN IF ~ arr.cells[j - arr.offset + 1].valid
       THEN JNil
       ELSE JList([ p \in 1..(arr.offsets[j + 2] - arr.offsets[j + 1]) |->
                      ExpectedJSON(arr.values, arr.offsets[j + 1] + p - 1) ])
  ELSE IF ~ arr.cells[j + 1].valid THEN JNil ELSE JVal(arr.cells[j + 1].v)

\* C15 -- List nesting fidelity: a list entry materializes without error to
\* nil when it is null, and otherwise to the sequence of its materialized
\* elements in element order, which is the empty sequence (not nil) for an
\* empty list; the same holds of elements that are lists themselves.
C15_ListNestingFidelity ==
  (Materialized /\ vr.kind = "List") =>
    LET arr == Ref(vr)
        j   == vr.index + arr.offset
    IN  /\ json = Returned(ExpectedJSON(arr, j))
        /\ json.val = JNil <=> ~ arr.cells[vr.index + 1].valid
        /\ (arr.cells[vr.index + 1].valid /\ arr.offsets[j + 2] = arr.offsets[j + 1])
             => json.val = JList(<< >>)

\* A list of lists was materialized to a sequence that holds both a nil
\* (null inner list) and an empty sequence (empty inner list).
C15_Witness ==
  /\ Materialized
  /\ vr.kind = "List"
  /\ json.val.t = "list"
  /\ \E p \in 1..Len(json.val.l) : json.val.l[p] = JNil
  /\ \E p \in 1..Len(json.val.l) : json.val.l[p] = JList(<< >>)

\* A list of lists was materialized to a sequence holding a non-empty
\* sequence with a nil element.
C15_WitnessNested ==
  /\ Materialized
  /\ vr.kind = "List"
  /\ json.val.t = "list"
  /\ \E p \in 1..Len(json.val.l) :
       /\ json.val.l[p].t = "list"
       /\ Len(json.val.l[p].l) = 2
       /\ \E q \in 1..2 : json.val.l[p].l[q] = JNil

\* The struct iterator stands on entry vr.index of its chunk (and not past
\* the chunk's entries) and that entry was materialized.
StructEntryMaterialized ==
  /\ Materialized
  /\ vr.kind = "Struct"
  /\ vr.index >= 0
  /\ vr.index < ChunkLen(Ref(vr))

\* What the struct entry under the iterator stands for: nil for a null
\* entry, else the object with one key per field of the struct type, bound
\* to what the field's cell at the entry's row stands for.
ExpectedStructJSON ==
  LET c  == Ref(vr)
      j  == vr.index + c.offset
      nf == Len(c.fields)
  IN  IF ~ c.cells[vr.index + 1].valid
      THEN JNil
      ELSE JObj([ nm \in { FieldNames[f] : f \in 1..nf } |->
                    ExpectedJSON(c.fields[CHOOSE f \in 1..nf : FieldNames[f] = nm], j) ])

\* C18 -- Struct materialization: a non-null struct entry materializes to a
\* mapping with exactly one key per struct field, named by the schema field
\* name, whose value is the materialization of that field's value at the
\* row of the struct entry; a null struct entry materializes to nil.
C18_StructMaterialization ==
  StructEntryMaterialized => json = Returned(ExpectedStructJSON)

\* The same for the entries of struct chunks that are not slices.
C18_StructMaterializationUnsliced ==
  (StructEntryMaterialized /\ Ref(vr).offset = 0) => json = Returned(ExpectedStructJSON)

\* A non-null entry of an unsliced two-field struct chunk was materialized
\* to an object holding a list under the second field's name.
C18_Witness ==
  /\ StructEntryMaterialized
  /\ Ref(vr).offset = 0
  /\ json.val.t = "obj"
  /\ DOMAIN json.val.o = { "field1", "field2" }
  /\ json.val.o["field2"].t = "list"

\* A value that is not nil was materialized under a type id for which
\* rowElementToJSON has no case.
UnsupportedMaterialized ==
  /\ json # NoJSON
  /\ vr.ret
  /\ dtype.id \in UnsupportedIds
  /\ ~ IteratorValueInterface(vr).nil

\* C19 -- Unsupported type: materializing a non-nil value whose logical type
\* has no materialization rule does not panic; it returns an error to the
\* caller and no value.
C19_UnsupportedTypeError ==
  UnsupportedMaterialized => (~ json.panic /\ json.err # "" /\ json.val = JNil)

\* C20 -- Nil materializes to nil: a nil value yields nil with no error
\* under every type id (the column's own, NULL, and those without a case),
\* as a column value (a null, or a row the column has no value for), as a
\* list element and as a struct field.
C20_NilMaterializesToNil ==
  /\ (json # NoJSON /\ (~ vr.ret \/ IteratorValueInterface(vr).nil))
       => json = Returned(JNil)
  /\ (Materialized /\ vr.kind = "List" /\ ~ IteratorValueInterface(vr).nil)
       => LET arr == Ref(vr)
              beg == arr.offsets[vr.index + arr.offset + 1]
          IN  /\ json.err = "" /\ ~ json.panic
              /\ \A p \in 1..Len(json.val.l) :
                   IsNull(arr.values, beg + p - 1) => json.val.l[p] = JNil
  /\ (Materialized /\ vr.kind = "Struct" /\ ~ IteratorValueInterface(vr).nil)
       => /\ json.err = "" /\ ~ json.panic
          /\ \A f \in 1..Len(vr.fieldIterators) :
               IteratorValueInterface(vr.fieldIterators[f]).nil
                 => json.val.o[FieldNames[f]] = JNil

\* A null column value was materialized under a type id that has no case.
C20_Witness ==
  /\ json # NoJSON
  /\ vr.ret
  /\ IteratorValueInterface(vr).nil
  /\ dtype.id \in UnsupportedIds

\* A row the column has no value for was materialized.
C20_WitnessNotExists == json # NoJSON /\ ~ vr.ret

\* A list with a null element was materialized.
C20_WitnessElement ==
  /\ Materialized
  /\ vr.kind = "List"
  /\ json.val.t = "list"
  /\ \E p \in 1..Len(json.val.l) : json.val.l[p] = JNil

\* A struct with a null field was materialized.
C20_WitnessField ==
  /\ Materialized
  /\ vr.kind = "Struct"
  /\ json.val.t = "obj"
  /\ \E f \in 1..Len(vr.fieldIterators) : json.val.o[FieldNames[f]] = JNil

\* ---------------------------------------- properties under SpecElement
\* The decimal128 value handed over was materialized.
DecimalMaterialized == json # NoJSON /\ dtype.id = "DECIMAL" /\ IsNum(elem)

\* C21 -- Decimal128 round trip: a decimal128 value materializes to the pair
\* (lo, hi) of its unsigned low half and signed high half; for the value v
\* made by FromI64(v), v = hi * 2^HalfBits + lo with 0 <= lo < 2^HalfBits,
\* and hi is -1 when v is negative; for the value made by New(hi, lo) the
\* pair is (lo, hi).
C21_Decimal128RoundTrip ==
  DecimalMaterialized =>
    /\ json.err = "" /\ ~ json.panic
    /\ json.val.t = "dec"
    /\ json.val.lo \in UnsignedHalf
    /\ json.val.hi \in SignedHalf
    /\ \A hi \in SignedHalf : \A lo \in UnsignedHalf :
         elem = NumValue(New(hi, lo)) => (json.val.lo = lo /\ json.val.hi = hi)
    /\ \A v \in SignedHalf :
         elem = NumValue(FromI64(v))
           => /\ json.val.hi * Half + json.val.lo = v
              /\ v < 0 => json.val.hi = -1

\* FromI64(-3) was materialized: lo = 2^HalfBits - 3 and hi = -1.
C21_Witness ==
  /\ DecimalMaterialized
  /\ elem = NumValue(FromI64(-3))
  /\ json.val.lo = Half - 3
  /\ json.val.hi = -1

\* The bytes of a fixed-size-binary value handed over as a []byte or as a
\* single byte.
BytesOf(value) == IF IsBytes(value) THEN value.bytes ELSE << value.byte >>

\* C22 -- Fixed-size binary: a value of the declared byte width W
\* materializes to the upper-case hexadecimal rendering of its W bytes, a
\* string of length 2 * W; a value whose rendering has another length gives
\* an error and no value.
C22_FixedSizeBinaryHex ==
  (json # NoJSON /\ dtype.id = "FIXED_SIZE_BINARY" /\ (IsBytes(elem) \/ IsByte(elem)))
    => IF Len(BytesOf(elem)) = dtype.byteWidth
       THEN /\ json = Returned(JStr(ToUpper(EncodeToString(BytesOf(elem)))))
            /\ Len(json.val.s) = 2 * dtype.byteWidth
       ELSE ~ json.panic /\ json.err # "" /\ json.val = JNil

\* The same for values handed over as a single byte.
C22_FixedSizeBinaryHexOneByte ==
  (json # NoJSON /\ dtype.id = "FIXED_SIZE_BINARY" /\ IsByte(elem))
    => IF dtype.byteWidth = 1
       THEN json = Returned(JStr(ToUpper(EncodeToString(<< elem.byte >>))))
       ELSE ~ json.panic /\ json.err # "" /\ json.val = JNil

\* ----------------------------------------- properties under SpecToJSON
\* The column under the j-th field of the schema, and its number of rows.
FrameColumn(j) == it.iterators[j].col

FrameRows(j) == Len(Flatten(FrameColumn(j)))

\* The number of rows of the DataFrame: that of its longest column.
FrameNumRows ==
  CHOOSE m \in 0..(2 * ToJSONMaxRows + 2) :
    /\ \A j \in 1..Len(tj.schema) : FrameRows(j) <= m
    /\ \E j \in 1..Len(tj.schema) : FrameRows(j) = m

\* What row r (from 1) of a column stands for, looking from chunk k on: nil
\* where the column has no such row.
RECURSIVE CellJSON(_, _, _)
CellJSON(col, k, r) ==
  IF k > Len(col)
  THEN JNil
  ELSE IF r <= ChunkLen(col[k])
  THEN ExpectedJSON(col[k], r - 1 + (IF IsListArray(col[k]) THEN col[k].offset ELSE 0))
  ELSE CellJSON(col, k + 1, r - ChunkLen(col[k]))

\* The object row r of the DataFrame stands for.
RowJSON(r) ==
  JObj([ nm \in { tj.schema[j].Name : j \in 1..Len(tj.schema) } |->
           CellJSON(FrameColumn(CHOOSE j \in 1..Len(tj.schema) : tj.schema[j].Name = nm), 1, r) ])

\* C23 -- ToJSON writes one object per row of the DataFrame, in row order;
\* each has one key per schema field, bound to the materialized value of the
\* column at the row, and to nil where that value is null or the column has
\* no value at the row; a ToJSON that returns without error has written
\* every row, those with nothing but nulls included.
C23_OneObjectPerRow ==
  tj.pc # "none" =>
    /\ Len(wr.lines) <= FrameNumRows
    /\ \A r \in 1..Len(wr.lines) : wr.lines[r] = RowJSON(r)
    /\ (tj.pc = "returned" /\ tj.err = "") => Len(wr.lines) = FrameNumRows

\* ToJSON returned without error after writing a row of nulls only, followed
\* by a row at which one column has a value and the other no entry.
C23_Witness ==
  /\ tj.pc = "returned"
  /\ tj.err = ""
  /\ \E r \in 1..(Len(wr.lines) - 1) :
       /\ \A nm \in DOMAIN wr.lines[r].o : wr.lines[r].o[nm] = JNil
       /\ \E j \in 1..2 : FrameRows(j) = r
       /\ \E nm \in DOMAIN wr.lines[r + 1].o : wr.lines[r + 1].o[nm] # JNil

\* ToJSON wrote a list under a key.
C23_WitnessList ==
  /\ tj.pc = "returned"
  /\ \E r \in 1..Len(wr.lines) : wr.lines[r].o["col1"].t = "list"

\* The step iterator and the column iterators are released: no reference
\* is left and each column iterator has cleaned up once.
StepIteratorReleased ==
  /\ it.refCount = 0
  /\ it.iteratorsNil
  /\ \A j \in 1..Len(it.iterators) :
       /\ it.iterators[j].refCount = 0
       /\ it.iterators[j].cleanups = 1

C24_WitnessSuccess == tj.pc = "returned" /\ tj.err = "" /\ FrameNumRows > 0

\* ----------------------------------------- properties under SpecShared
\* The references that exist: those the threads own and those of Release
\* calls that have not decremented the count yet.
Outstanding ==
  Sum(conc.owned) + Cardinality({ t \in Threads : conc.pc[t] = "add" })

\* Thread t runs the cleanup of a Release.
Cleaning(t) == conc.pc[t] \in { "clean_ci", "clean_ref" }

\* C25 -- Retain and Release under concurrency: however the Retain and
\* Release calls of threads that own references interleave, no assertion
\* fails, the count is the number of references that exist, the cleanup is
\* run by one thread only, when no reference exists, the chunk cursor and
\* the chunk held are released at most once, and they are released once
\* every reference is given up and every call has returned.
C25_ConcurrentRetainRelease ==
  conc.kind # "none" =>
    /\ ~ conc.panicked
    /\ conc.refCount = Outstanding
    /\ conc.ciReleases <= 1
    /\ conc.refReleases <= 1
    /\ \A t \in Threads :
         Cleaning(t) => /\ Outstanding = 0
                        /\ \A u \in Threads \ { t } : ~ Cleaning(u)
    /\ (conc.ciReleases > 0 \/ conc.refReleases > 0) => Outstanding = 0
    /\ (Outstanding = 0 /\ \A t \in Threads : conc.pc[t] = "idle")
         => conc.ciReleases = 1 /\ ~ conc.hasCI /\ ~ conc.ref

\* Thread 2 runs the cleanup, of an iterator made by thread 1 that holds a
\* chunk, while thread 1 is still inside its own Release call.
C25_Witness ==
  /\ conc.kind # "none"
  /\ conc.pc[2] = "clean_ref"
  /\ conc.pc[1] = "test"
  /\ conc.ciReleases = 1
  /\ conc.ref

\* ----------------------------------------- properties under SpecColumn
\* NewColumnFromMem has returned.
ColumnBuilt == column # NoColumn

\* The column holds the elements: as many entries, in one chunk, null where
\* the element is nil and the element's value elsewhere, of the arrow type
\* of the first non-nil element.
ColumnHoldsElms ==
  /\ column.err = ""
  /\ Len(column.col) = 1
  /\ Len(column.col[1].cells) = Len(elms)
  /\ \A i \in 1..Len(elms) :
       /\ column.col[1].cells[i].valid = ~ elms[i].nil
       /\ ~ elms[i].nil => column.col[1].cells[i].v = elms[i].v
  /\ FirstNonNil(elms) # 0
       => column.dataType = IF elms[FirstNonNil(elms)].ty = "bool" THEN "BOOL" ELSE "INT64"

\* The elements have a first non-nil element, of a type that has a case,
\* and every non-nil element is of that type.
Homogeneous ==
  /\ FirstNonNil(elms) # 0
  /\ elms[FirstNonNil(elms)].ty \in { "bool", "int64", "int" }
  /\ \A i \in 1..Len(elms) : ~ elms[i].nil => elms[i].ty = elms[FirstNonNil(elms)].ty

\* C26 as stated -- every []interface{} without a mask gives a column of the
\* same length, null exactly where the element is nil and equal to the
\* element elsewhere, of the type of the first non-nil element.
C26_ColumnFromInterfacesOriginal == ColumnBuilt => ColumnHoldsElms

\* C26 -- Building a column from a []interface{} without a mask, with a
\* non-nil element and all non-nil elements of the type of the first one,
\* gives a column of the same length, null exactly where the element is nil
\* and equal to the element elsewhere (an int widened to int64), of the
\* type of the first non-nil element; every other []interface{} (empty, all
\* nil, mixed types, a type without a case) gives an error and no column.
C26_ColumnFromInterfaces ==
  ColumnBuilt => IF Homogeneous
                 THEN ColumnHoldsElms
                 ELSE column.err # "" /\ column.col = << >>

\* The column of [2, nil, 4] was built: int64, with a null in the middle.
C26_Witness ==
  /\ ColumnBuilt
  /\ elms = << Elm("int", 2), NilElm, Elm("int", 4) >>
  /\ column.dataType = "INT64"
  /\ column.col[1].cells = << [ v |-> 2, valid |-> TRUE ], [ v |-> 0, valid |-> FALSE ],
                              [ v |-> 4, valid |-> TRUE ] >>

\* A leading nil: the type is that of the first non-nil element.
C26_WitnessLeadingNil ==
  /\ ColumnBuilt
  /\ elms = << NilElm, Elm("bool", 1) >>
  /\ column.dataType = "BOOL"

\* ---------------------------------------- properties under SpecBuilder
\* The cells that stand for a sequence of appended values: a null for a
\* nil, the value otherwise.
CellsOf(vs) ==
  [ k \in 1..Len(vs) |->
      IF vs[k].nil THEN [ v |-> 0, valid |-> FALSE ] ELSE [ v |-> vs[k].v, valid |-> TRUE ] ]

OwnRefs(k) == vr.rc[k] - 1 - (IF vr.ci.cur = k THEN 1 ELSE 0)

\* C28 -- A typed value iterator holds at most one chunk reference of its
\* own: it holds one reference on the chunk vr.ref and none on any other
\* chunk (a chunk transition retained the new chunk once and released the
\* one before once), it never has released a chunk more often than it
\* retained it, and after the final Release it holds none.
C28_AtMostOneChunkReference ==
  Typed =>
    /\ \A k \in 1..Len(vr.col) :
         /\ OwnRefs(k) >= 0
         /\ OwnRefs(k) = (IF vr.ref = k THEN 1 ELSE 0)
    /\ Released => \A k \in 1..Len(vr.col) : OwnRefs(k) = 0

\* The iterator is in its third chunk, after two chunk transitions, and
\* holds that chunk only.
C28_Witness ==
  /\ Typed
  /\ nRelease = 0
  /\ Len(vr.col) = 3
  /\ vr.acquired = 3
  /\ vr.ref = 3
  /\ OwnRefs(3) = 1
  /\ OwnRefs(1) = 0
  /\ OwnRefs(2) = 0

\* The final Release came while the second chunk was held.
C28_WitnessReleased ==
  /\ Typed
  /\ Released
  /\ vr.acquired = 2
  /\ vr.cleanups = 1
  /\ OwnRefs(2) = 0

\* ------------------------------ properties under SpecStep: every column
\* The steps, among those made so far, in which column i had a value.
StepsWithValue(i) == { k \in 1..Len(hist) : hist[k].sv.Exists[i] }

\* C29 -- After k calls of stepIterator.Next each column iterator has had
\* its Next called k times, exhausted or not, and its ValueInterface called
\* once in each step in which its Next returned true and in no other; a
\* column that does not exist in a step has nil for its value.
C29_EveryColumnAdvanced ==
  \A i \in 1..NumCols :
    /\ it.nexts[i] = Len(hist)
    /\ it.reads[i] = Cardinality(StepsWithValue(i))
    /\ \A k \in 1..Len(hist) :
         ~ hist[k].sv.Exists[i] => hist[k].sv.Values[i] = NilValue

\* Three steps over a column of one row and a column of three: the first
\* column is exhausted from the second step on and is advanced all the same.
C29_Witness ==
  /\ Len(hist) = 3
  /\ hist[1].sv.Exists = << TRUE, TRUE >>
  /\ hist[2].sv.Exists = << FALSE, TRUE >>
  /\ hist[3].sv.Exists = << FALSE, TRUE >>
  /\ it.nexts = << 3, 3 >>
  /\ it.reads = << 1, 3 >>

\* ---------------------------- properties under SpecStep: the StepValue
\* C30 -- Each stepIterator.Next installs a newly allocated StepValue: a
\* StepValue obtained from Values() still holds the Values and Exists it
\* held when it was obtained, whatever Next calls came later; two calls of
\* Values() with no Next between them return the same StepValue and two
\* calls with a Next between them return different ones; Values() before
\* the first Next returns nil; and Values() leaves the step iterator as it
\* was.
C30_FreshStepValue ==
  /\ \A g \in 1..Len(got) :
       /\ got[g].same
       /\ (got[g].addr = 0) = (got[g].step = 0)
       /\ got[g].addr # 0 =>
            /\ Deref(it, got[g].addr).Values = got[g].sv.Values
            /\ Deref(it, got[g].addr).Exists = got[g].sv.Exists
            /\ got[g].sv = hist[got[g].step].sv
  /\ \A g, h \in 1..Len(got) :
       (got[g].addr = got[h].addr) = (got[g].step = got[h].step)

\* A StepValue was obtained after the first step, with values in it, and
\* again after the second step, which moved a column to its end.
C30_Witness ==
  /\ Len(got) = 2
  /\ Len(hist) >= 3
  /\ got[1].step = 1
  /\ got[2].step = 2
  /\ got[1].sv.Exists = << TRUE, TRUE >>
  /\ got[2].sv.Exists = << FALSE, TRUE >>
  /\ got[1].addr # got[2].addr

\* Values() was called twice between two steps.
C30_WitnessRepeated ==
  /\ Len(got) = 2
  /\ got[1].step = 1
  /\ got[2].step = 1
  /\ got[1].addr = got[2].addr
  /\ Len(hist) = 2

\* ------------------------------------ properties under SpecStepDirect
\* The StepValue has one value, one flag and one data type per iterator and
\* Value(i) is defined for each column.
StepValueComplete(sv) ==
  /\ Len(sv.Values) = NumCols
  /\ Len(sv.Exists) = NumCols
  /\ Len(sv.Dtypes) = NumCols
  /\ \A i \in 1..NumCols : ~ StepValueValue(sv, i).panic

\* C31 -- Every StepValue produced by Next has as many Values, Exists and
\* Dtypes as there are iterators, and Value(i) is defined for every column,
\* also when the step iterator was built by NewStepIterator from dtypes the
\* caller supplied.
C31_StepValueLengths ==
  \A k \in 1..Len(hist) : StepValueComplete(hist[k].sv)

\* The same for the step iterators whose dtypes slice has one entry per
\* iterator, as NewStepIteratorForColumns builds it.
C31_StepValueLengthsSameLength ==
  Len(it.dtypes) = NumCols => \A k \in 1..Len(hist) : StepValueComplete(hist[k].sv)

\* Values and Exists have one entry per iterator whatever the dtypes.
C31_ValuesAndExistsLengths ==
  \A k \in 1..Len(hist) :
    /\ Len(hist[k].sv.Values) = NumCols
    /\ Len(hist[k].sv.Exists) = NumCols
    /\ hist[k].sv.Dtypes = it.dtypes

\* C32 -- NewStepIterator takes one reference on each iterator handed to
\* it and the step iterator's final Release gives that one back: while the
\* step iterator is alive each iterator has the caller's reference and one
\* more; from the final Release on each has the caller's reference only,
\* as before the construction, and its cleanup has not run (it still has
\* its chunk cursor, and the chunk it holds is still retained).
C32_StepIteratorOwnsOneReference ==
  \A j \in 1..NumCols :
    /\ nRelease < 1 + nRetain => it.iterators[j].refCount = 2
    /\ nRelease >= 1 + nRetain => it.iterators[j].refCount = 1
    /\ it.iterators[j].cleanups = 0
    /\ it.iterators[j].hasCI
    /\ it.iterators[j].ref # 0 => it.iterators[j].rc[it.iterators[j].ref] >= 2

\* The step iterator was retained once and released twice, after two steps
\* that left each column iterator on a chunk.
C32_Witness ==
  /\ nRetain = 1
  /\ nRelease = 2
  /\ Len(hist) = 2
  /\ it.refCount = 0
  /\ it.iteratorsNil
  /\ \A j \in 1..NumCols : it.iterators[j].refCount = 1 /\ it.iterators[j].ref # 0

\* --------------------------- properties under Spec: the field iterators
\* The field iterators built for the chunks acquired so far: one per field
\* of each.
FieldIteratorsDue == Sum([ k \in 1..vr.acquired |-> Len(vr.col[k].fields) ])

\* C33 -- The field iterators of a struct iterator: one is built per field
\* of each chunk acquired; those of the chunks left behind have all been
\* released, once each, while those of the current chunk hold their one
\* reference; after the struct iterator's final Release every field
\* iterator built has been released, and none ever more than once.
C33_FieldIteratorsReleasedOnce ==
  (vr.kind = "Struct" /\ ~ vr.panicked) =>
    /\ vr.fieldsBuilt = FieldIteratorsDue
    /\ \A i \in 1..Len(vr.fieldIterators) :
         /\ vr.fieldIterators[i].refCount \in { 0, 1 }
         /\ vr.fieldIterators[i].cleanups = 1 - vr.fieldIterators[i].refCount
    /\ nRelease < 1 + nRetain =>
         /\ vr.fieldsCleaned = vr.fieldsBuilt - Len(vr.fieldIterators)
         /\ \A i \in 1..Len(vr.fieldIterators) : vr.fieldIterators[i].refCount = 1
    /\ nRelease >= 1 + nRetain =>
         /\ vr.fieldsCleaned = vr.fieldsBuilt
         /\ \A i \in 1..Len(vr.fieldIterators) : vr.fieldIterators[i].refCount = 0

\* The struct iterator went over two chunks of two fields and was released
\* while on the second.
C33_Witness ==
  /\ vr.kind = "Struct"
  /\ Released
  /\ vr.acquired = 2
  /\ vr.fieldsBuilt = 4
  /\ vr.fieldsCleaned = 4
  /\ Len(vr.fieldIterators) = 2

\* ------------------------------ properties under SpecToJSON: children
\* The entries of the list column (column j) that are not null, among its
\* first n.
ListEntriesIn(j, n) ==
  Cardinality({ k \in 1..n :
                  k <= Len(Flatten(FrameColumn(j))) /\ Flatten(FrameColumn(j))[k].valid })

C34_WitnessNull ==
  /\ tj.pc = "returned"
  /\ tj.err = ""
  /\ tj.built = 1
  /\ tj.released = 1
  /\ \E r \in 1..Len(wr.lines) : wr.lines[r].o["col1"] = JNil /\ wr.lines[r].o["col0"] # JNil

\* ----------------------------------- properties under SpecOverRelease
\* Every Release call has been made and has run to its end.
AllReleasesDone ==
  /\ \A t \in Threads : conc.owned[t] = 0
  /\ \A t \in Threads : conc.pc[t] = "idle"

\* C35 -- Over-release detection: with assertions enabled, when one Release
\* call more than the iterator has references is made, by threads running
\* concurrently, the calls do not all run to their end: the "too many
\* releases" assertion fails in one of them, for the iterators that assert
\* before the decrement (boolean, list, struct) and for those that assert
\* after it (template value iterators, step iterator) alike.
C35_OverReleaseDetected ==
  (conc.asserts /\ AllReleasesDone) => conc.panicked

\* The same for the iterators that assert on the value the decrement
\* returned.
C35_OverReleaseDetectedTemplate ==
  (conc.kind = "Int64" /\ conc.asserts /\ AllReleasesDone) => conc.panicked

\* For the iterators that load and assert before the decrement, an
\* over-release that no assertion caught has left the count negative.
C35_UndetectedLeavesNegativeCount ==
  (conc.kind = "Boolean" /\ conc.asserts /\ AllReleasesDone) =>
    (conc.panicked \/ conc.refCount < 0)

\* --------------------------------------------- properties under SpecCast
\* The slice handed to DenseCollectionToInterface.
DenseInput == DenseExpansion(elms, cast.indexes, cast.size)

\* Some non-nil element of s has another type than the first non-nil one.
MixedTypes(s) ==
  /\ FirstNonNil(s) # 0
  /\ \E i \in 1..Len(s) : ~ s[i].nil /\ s[i].ty # s[FirstNonNil(s)].ty

\* C36 -- DenseCollectionToInterface on a slice in which some non-nil
\* element has another dynamic type than the first non-nil element returns
\* an error and no slice (a Go int and an int64 are different types).
C36_MixedTypesError ==
  (cast.dense # << >> /\ MixedTypes(DenseInput)) =>
    /\ cast.dense[1].err # ""
    /\ cast.dense[1].isNil
    /\ cast.dense[1].vals = << >>

\* [int64(6), nil, int(2)] was converted: an error.
C36_Witness ==
  /\ cast.dense # << >>
  /\ DenseInput = << Elm("int64", 6), NilElm, Elm("int", 2) >>
  /\ cast.dense[1].err = "inconsistent data types"

\* The outcome of a conversion: the error, if any, or the slice.
SameResult(a, b) ==
  /\ (a.err # "") = (b.err # "")
  /\ a.err = "" => a = b

\* C37 -- SparseCollectionToInterface(elms, indexes, size) returns what
\* DenseCollectionToInterface returns for the dense expansion: the same
\* typed slice, or an error where it returns an error, for all elms and
\* distinct indexes below size, whichever elements are nil.
C37_SparseEqualsDense ==
  (cast.sparse # << >> /\ cast.dense # << >>) => SameResult(cast.sparse[1], cast.dense[1])

\* The same for the collections whose first element is not nil.
C37_SparseEqualsDenseFirstNotNil ==
  (cast.sparse # << >> /\ cast.dense # << >> /\ Len(elms) > 0 /\ ~ elms[1].nil)
    => SameResult(cast.sparse[1], cast.dense[1])

====
